---- MODULE Spec2Model ----
(***************************************************************************)
(* retryify: a function-wrapping retry utility (index.js, async `execute`   *)
(* loop version).  The model follows one or several invocations of one      *)
(* wrapped function through the attempt loop of `execute`.  Two earlier     *)
(* versions are modelled beside it: the recursive retryRec / onError of the *)
(* first version in index.js, and the `execute` of unnamed/part_002, which  *)
(* matches failures against a list of errors instead of a predicate.        *)
(*                                                                          *)
(* JavaScript values are tagged tuples: <<"undefined">>, <<"null">>,        *)
(* <<"number", n>>, <<"function", f>>.  A backoff delay is a reduced        *)
(* fraction <<num, den>> of milliseconds, so that factor 1.5 is exact.      *)
(***************************************************************************)
EXTENDS Integers, Sequences, FiniteSets, TLC

(* ------------------------------ bounds --------------------------------- *)

\* largest `retries` override enumerated for a single invocation
MaxRetries == 2
\* number of concurrent invocations of the wrapped function (SpecConc)
NumInv == 2
\* largest `retries` override enumerated for concurrent invocations
ConcRetries == 1
\* number of functions wrapped by one factory (SpecWraps)
MaxWraps == 2
\* the number of factories the caller builds from one options object
MaxFactories == 2
\* the value of the retry counter at which an invocation is no longer followed
MaxCounter == 4

(* --------------------------- JavaScript values -------------------------- *)

Undefined == <<"undefined">>
Null == <<"null">>
Num(n) == <<"number", n>>
Frac(n, d) == <<"number", n, d>>
Fun(f) == <<"function", f>>

\* the classes of failure the wrapped function raises, with their messages
ErrorNames == {"FooError", "BazError"}
MessageOf(name) == IF name = "FooError" THEN "This is a FooError" ELSE "This is a BazError"
\* the failure object raised by attempt number n: a fresh object per raise
Failure(name, n) == [name |-> name, message |-> MessageOf(name), id |-> n]
\* the values the wrapped function returns
Values == {6, 7}

(* ------------------------------ arithmetic ------------------------------ *)

RECURSIVE Pow(_, _)
Pow(b, e) == IF e = 0 THEN 1 ELSE b * Pow(b, e - 1)

RECURSIVE Gcd(_, _)
Gcd(a, b) == IF b = 0 THEN a ELSE Gcd(b, a % b)

\* a fraction of milliseconds in lowest terms
Reduce(n, d) == LET g == Gcd(n, d) IN IF g = 0 THEN <<0, 1>> ELSE <<n \div g, d \div g>>

\* numerator and denominator of a JavaScript number
NumOf(v) == v[2]
DenOf(v) == IF Len(v) = 3 THEN v[3] ELSE 1

(* ------------------------------- options -------------------------------- *)

\* getOpt written as `option || _default`: a zero counts as unspecified
getOptFalsy(option, _default) ==
  IF option = Undefined \/ option = Null \/ option = <<"number", 0>> THEN _default ELSE option

\* index.js getOpt: _default if the option is undefined or null
getOpt(option, _default) ==
  IF option = Undefined \/ option = Null THEN _default ELSE option

DefaultRetries == 3
DefaultInitialDelay == 0
DefaultTimeout == 300
DefaultFactor == 2
\* the default log function: function() { /* empty */ }
EmptyLog == Fun("empty")
\* the default predicate: () => true, given by the failures it accepts
AlwaysRetry == Fun(ErrorNames)

\* an options object with every field left out
NoOptions ==
  [retries |-> Undefined, initialDelay |-> Undefined, timeout |-> Undefined,
   factor |-> Undefined, log |-> Undefined, shouldRetry |-> Undefined]

\* retryify with a constant backoff as the default: factor 1
retryifyConstantBackoff(options) ==
  [retries |-> getOpt(options.retries, Num(DefaultRetries)),
   initialDelay |-> getOpt(options.initialDelay, Num(DefaultInitialDelay)),
   timeout |-> getOpt(options.timeout, Num(DefaultTimeout)),
   factor |-> getOpt(options.factor, Num(1)),
   log |-> getOpt(options.log, EmptyLog),
   shouldRetry |-> getOpt(options.shouldRetry, AlwaysRetry)]

\* index.js retryify: the options object after the defaults are written in
retryify(options) ==
  [retries |-> getOpt(options.retries, Num(DefaultRetries)),
   initialDelay |-> getOpt(options.initialDelay, Num(DefaultInitialDelay)),
   timeout |-> getOpt(options.timeout, Num(DefaultTimeout)),
   factor |-> getOpt(options.factor, Num(DefaultFactor)),
   log |-> getOpt(options.log, EmptyLog),
   shouldRetry |-> getOpt(options.shouldRetry, AlwaysRetry)]

\* fn.name || '<Anonymous>'
FnNameOf(fn) == IF fn.name = "" THEN "<Anonymous>" ELSE fn.name

\* retryWrapper with the construction-level timeout shadowing the override
retryWrapperTimeoutInherited(opts, innerOptions, fn) ==
  [fn |-> fn,
   fnName |-> FnNameOf(fn),
   retries |-> getOpt(innerOptions.retries, opts.retries),
   initialDelay |-> getOpt(innerOptions.initialDelay, opts.initialDelay),
   timeout |-> getOpt(opts.timeout, innerOptions.timeout),
   factor |-> getOpt(innerOptions.factor, opts.factor),
   log |-> getOpt(innerOptions.log, opts.log),
   shouldRetry |-> getOpt(innerOptions.shouldRetry, opts.shouldRetry)]

\* index.js retryWrapper: the constants captured by the closure of doRetry
retryWrapper(opts, innerOptions, fn) ==
  [fn |-> fn,
   fnName |-> FnNameOf(fn),
   retries |-> getOpt(innerOptions.retries, opts.retries),
   initialDelay |-> getOpt(innerOptions.initialDelay, opts.initialDelay),
   timeout |-> getOpt(innerOptions.timeout, opts.timeout),
   factor |-> getOpt(innerOptions.factor, opts.factor),
   log |-> getOpt(innerOptions.log, opts.log),
   shouldRetry |-> getOpt(innerOptions.shouldRetry, opts.shouldRetry)]

\* an object passed as an argument
Obj(o) == <<"object", o>>

\* new TypeError('options object expected but was passed a function')
OptionsTypeError ==
  [name |-> "TypeError", message |-> "options object expected but was passed a function"]

\* retryify without the typeof guard: the function is read as an options
\* object with no option set
constructNoGuard(arg) ==
  [threw |-> FALSE, error |-> Undefined,
   options |-> retryify(IF arg[1] = "object" THEN arg[2] ELSE NoOptions)]

\* index.js retryify, the call: the default parameter `options = {}`, the
\* typeof guard, then the defaults
construct(arg) ==
  IF arg[1] = "function"
  THEN [threw |-> TRUE, error |-> OptionsTypeError, options |-> NoOptions]
  ELSE [threw |-> FALSE, error |-> Undefined,
        options |-> retryify(IF arg = Undefined THEN NoOptions ELSE arg[2])]

\* retryWrapper taking (fn, innerOptions) as well: an object that follows the
\* function is read as its overrides
wrapCallFnFirst(opts, a1, a2) ==
  IF a1[1] = "function"
  THEN retryWrapper(opts, IF a2[1] = "object" THEN a2[2] ELSE NoOptions, a1[2])
  ELSE retryWrapper(opts, a1[2], a2[2])

\* index.js retryWrapper, the call: (fn) or (innerOptions, fn)
wrapCall(opts, a1, a2) ==
  IF a1[1] = "function"
  THEN retryWrapper(opts, NoOptions, a1[2])
  ELSE retryWrapper(opts, a1[2], a2[2])

(* -------------------------------- state --------------------------------- *)

Invocations == 1 .. NumInv

VARIABLES
  setup,     \* the caller's side: how far construction and wrapping have got
  options,   \* the options object held by the closure of retryWrapper
  wrapped,   \* the constants captured by the closure of doRetry
  wrappers,  \* every closure retryWrapper has returned so far, in order
  context,   \* per invocation: the context object built by doRetry
  pc,        \* per invocation: where its `execute` is suspended
  retries,   \* per invocation: the local `let retries` of execute
  timers,    \* per invocation: the setTimeout timers armed and not yet fired
  inflight,  \* per invocation: the attempts whose promise has not settled
  trace,     \* per invocation: what the collaborators observed, in order
  result     \* per invocation: the state of the promise doRetry returned

vars == <<setup, options, wrapped, wrappers, context, pc, retries, timers, inflight, trace, result>>

NoContext == [fnName |-> "none"]
NoWrapper == [fnName |-> "none"]
Pending == [kind |-> "pending"]

\* the receiver and the arguments of the i-th call of the wrapped function
ReceiverOf(i) == [foo |-> "this is a foo", id |-> i]
ArgsOf(i) == <<i, 2, 3>>

\* the wrapped functions: a named one and an anonymous one
Fns == {[name |-> "addFail"], [name |-> ""]}

\* the construction options of test/test_retry.js (retries: 2, initialDelay: 0,
\* timeout: 5, factor: 1.5), with the observer of its log test as log
TestOptions ==
  [NoOptions EXCEPT !.retries = Num(2), !.initialDelay = Num(0),
                    !.timeout = Num(5), !.factor = Frac(3, 2),
                    !.log = Fun("mockLog")]

ConstructionOptions == {NoOptions, TestOptions}

\* the initialDelay a per-function override asks for, in ms
InitialDelayMs == 1500

\* per-function overrides: {retries}, {initialDelay}, {shouldRetry}
InnerOptionsUpTo(maxRetries) ==
  {[NoOptions EXCEPT !.retries = r, !.initialDelay = d, !.shouldRetry = s] :
     r \in {Undefined} \cup {Num(n) : n \in 0 .. maxRetries},
     d \in {Undefined, Num(InitialDelayMs)},
     s \in {Undefined, Fun({"BazError"})}}

\* a doRetry that retryWrapper returned: the arguments it was given, as
\* given, and the constants its closure captured
Wrapper(call, config) == [call |-> call, config |-> config]

\* the state of the invocations before any call of the wrapped function
NoCalls ==
  /\ context = [i \in Invocations |-> NoContext]
  /\ pc = [i \in Invocations |-> "idle"]
  /\ retries = [i \in Invocations |-> 0]
  /\ timers = [i \in Invocations |-> {}]
  /\ inflight = [i \in Invocations |-> {}]
  /\ trace = [i \in Invocations |-> <<>>]
  /\ result = [i \in Invocations |-> Pending]

\* the state after retryify(o)(inner, fn)
InitWith(constructions, inners, fns) ==
  /\ \E o \in constructions, inner \in inners, fn \in fns :
       /\ setup = [stage |-> "wrapped", arg |-> Obj(o),
                   wrapArgs |-> <<Obj(inner), Fun(fn)>>, error |-> Undefined]
       /\ options = construct(Obj(o)).options
       /\ wrapped = wrapCall(options, Obj(inner), Fun(fn))
       /\ wrappers = <<Wrapper(setup.wrapArgs, wrapped)>>
  /\ NoCalls

Init == InitWith(ConstructionOptions, InnerOptionsUpTo(MaxRetries), Fns)

(* ------------------------------- execute -------------------------------- *)

\* a counter hoisted out of execute: every invocation uses the same cell
CounterOfShared(i) == 1

\* the cell that holds the `let retries` of invocation i: one per call of execute
CounterOf(i) == i

\* the number of calls of the underlying function a trace records
RECURSIVE CountEv(_, _)
CountEv(tr, ev) ==
  IF tr = <<>> THEN 0
  ELSE (IF Head(tr).ev = ev THEN 1 ELSE 0) + CountEv(Tail(tr), ev)

\* the positions of the events of one kind in a trace
Positions(tr, ev) == {k \in 1 .. Len(tr) : tr[k].ev = ev}

Last(S) == CHOOSE k \in S : \A m \in S : m <= k

\* a callback of the caller that raises on some of its inputs: these are its
\* third component (shouldRetry: the names of failures, log: the attempt numbers)
RaisesOn(f, x) == Len(f) = 3 /\ x \in f[3]

\* the value a callback of the caller raises
CallbackFailure(callback) ==
  [name |-> "CallbackError", message |-> "raised by the callback", by |-> callback]

\* context.shouldRetry(err)
ShouldRetry(ctx, err) == err.name \in ctx.shouldRetry[2]

\* context.timeout * Math.pow(context.factor, retries), in lowest terms
Delay(ctx, r) ==
  Reduce(NumOf(ctx.timeout) * Pow(NumOf(ctx.factor), r),
         DenOf(ctx.timeout) * Pow(DenOf(ctx.factor), r))

\* the message with the retry counter in place of the number of attempts
MessageZeroBased(ctx, delay, attempts) ==
  <<"retrying function ", ctx.fnName, " in ", delay, " ms : attempts: ", attempts - 1>>

\* `retrying function ${context.fnName} in ${delay} ms : attempts: ${attempts}`
Message(ctx, delay, attempts) ==
  <<"retrying function ", ctx.fnName, " in ", delay, " ms : attempts: ", attempts>>

\* the timer of `await new Promise((resolve) => setTimeout(resolve, ms))`
Timer(kind, ms) == [kind |-> kind, delay |-> ms]

\* A step of invocation i ends with the locals L of its execute written back.
Commit(i, L, at, res) ==
  /\ context' = [context EXCEPT ![i] = L.context]
  /\ pc' = [pc EXCEPT ![i] = at]
  /\ retries' = [retries EXCEPT ![CounterOf(i)] = L.retries]
  /\ timers' = [timers EXCEPT ![i] = L.timers]
  /\ inflight' = [inflight EXCEPT ![i] = L.inflight]
  /\ trace' = [trace EXCEPT ![i] = L.trace]
  /\ result' = [result EXCEPT ![i] = res]
  /\ UNCHANGED <<setup, options, wrapped, wrappers>>

\* the locals of invocation i when one of its continuations is resumed
Locals(i) ==
  [context |-> context[i], retries |-> retries[CounterOf(i)], timers |-> timers[i],
   inflight |-> inflight[i], trace |-> trace[i]]

Observe(L, event) == [L EXCEPT !.trace = Append(@, event)]

\* `return await ...`: the promise of doRetry resolves with the value
Return(i, L, value) ==
  Commit(i, L, "done-success", [kind |-> "resolved", value |-> value])

\* the failure wrapped in a new error before it is surfaced
ThrowWrapped(i, L, err) ==
  Commit(i, L, "done-failure",
         [kind |-> "rejected",
          reason |-> [name |-> "Error", message |-> "retries exhausted", cause |-> err]])

\* `throw err` out of the catch block: the promise of doRetry rejects with err
Throw(i, L, err) ==
  Commit(i, L, "done-failure", [kind |-> "rejected", reason |-> err])

\* the backoff with the log call left out on the first retry
BackoffLogAfterFirst(i, L, err) ==
  LET attempts == L.retries + 1
      delay == Delay(L.context, L.retries)
      msg == Message(L.context, delay, attempts)
      L1 == Observe(L, [ev |-> "shouldRetry", err |-> err, ret |-> TRUE])
      L2 == IF attempts > 1
            THEN Observe(L1, [ev |-> "log", log |-> L.context.log, msg |-> msg])
            ELSE L1
      L3 == Observe(L2, [ev |-> "setTimeout", kind |-> "backoff", delay |-> delay])
  IN Commit(i, [L3 EXCEPT !.timers = @ \cup {Timer("backoff", delay)}],
            "waiting", result[i])

\* the backoff with `attempts` (the counter after its increment) as the exponent
BackoffPostIncrement(i, L, err) ==
  LET attempts == L.retries + 1
      delay == Delay(L.context, attempts)
      msg == Message(L.context, delay, attempts)
      L1 == Observe(L, [ev |-> "shouldRetry", err |-> err, ret |-> TRUE])
      L2 == Observe(L1, [ev |-> "log", log |-> L.context.log, msg |-> msg])
      L3 == Observe(L2, [ev |-> "setTimeout", kind |-> "backoff", delay |-> delay])
  IN Commit(i, [L3 EXCEPT !.timers = @ \cup {Timer("backoff", delay)}],
            "waiting", result[i])

\* the backoff with the log call made after the timer is armed
BackoffLogAfterTimer(i, L, err) ==
  LET attempts == L.retries + 1
      delay == Delay(L.context, L.retries)
      msg == Message(L.context, delay, attempts)
      L1 == Observe(L, [ev |-> "shouldRetry", err |-> err, ret |-> TRUE])
      L2 == Observe(L1, [ev |-> "setTimeout", kind |-> "backoff", delay |-> delay])
      L3 == Observe(L2, [ev |-> "log", log |-> L.context.log, msg |-> msg])
  IN Commit(i, [L3 EXCEPT !.timers = @ \cup {Timer("backoff", delay)}],
            "waiting", result[i])

\* the backoff with the log call in a try block of its own: what log raises
\* is dropped and the retry goes on
BackoffLogGuarded(i, L, err) ==
  LET attempts == L.retries + 1
      delay == Delay(L.context, L.retries)
      msg == Message(L.context, delay, attempts)
      L1 == Observe(L, [ev |-> "shouldRetry", err |-> err, ret |-> TRUE])
      L2 == Observe(L1, [ev |-> "log", log |-> L.context.log, msg |-> msg])
      L3 == Observe(L2, [ev |-> "setTimeout", kind |-> "backoff", delay |-> delay])
  IN Commit(i, [L3 EXCEPT !.timers = @ \cup {Timer("backoff", delay)}],
            "waiting", result[i])

\* the backoff of the catch block: log, then arm the timer and suspend; what
\* log raises leaves the catch block and execute
Backoff(i, L, err) ==
  LET attempts == L.retries + 1
      delay == Delay(L.context, L.retries)
      msg == Message(L.context, delay, attempts)
      L1 == Observe(L, [ev |-> "shouldRetry", err |-> err, ret |-> TRUE])
      L2 == Observe(L1, [ev |-> "log", log |-> L.context.log, msg |-> msg])
      L3 == Observe(L2, [ev |-> "setTimeout", kind |-> "backoff", delay |-> delay])
  IN IF RaisesOn(L.context.log, attempts)
     THEN Throw(i, L2, CallbackFailure("log"))
     ELSE Commit(i, [L3 EXCEPT !.timers = @ \cup {Timer("backoff", delay)}],
                 "waiting", result[i])

\* the catch block with the budget test off by one: retries + 1 === context.retries
CatchOffByOne(i, L, err) ==
  IF Num(L.retries + 1) = L.context.retries
  THEN Throw(i, L, err)
  ELSE IF ~ShouldRetry(L.context, err)
  THEN Throw(i, Observe(L, [ev |-> "shouldRetry", err |-> err, ret |-> FALSE]), err)
  ELSE Backoff(i, L, err)

\* the catch block with the predicate consulted for the first failure only
CatchPredicateOnce(i, L, err) ==
  IF Num(L.retries) = L.context.retries
  THEN Throw(i, L, err)
  ELSE IF L.retries = 0 /\ ~ShouldRetry(L.context, err)
  THEN Throw(i, Observe(L, [ev |-> "shouldRetry", err |-> err, ret |-> FALSE]), err)
  ELSE Backoff(i, L, err)

\* the catch block with a log call also when the budget is used up
CatchLogsFinal(i, L, err) ==
  IF Num(L.retries) = L.context.retries
  THEN Throw(i, Observe(L, [ev |-> "log", log |-> L.context.log,
                            msg |-> Message(L.context, <<0, 1>>, L.retries + 1)]), err)
  ELSE IF ~ShouldRetry(L.context, err)
  THEN Throw(i, Observe(L, [ev |-> "shouldRetry", err |-> err, ret |-> FALSE]), err)
  ELSE Backoff(i, L, err)

\* the catch block with the verdict of the predicate inverted
CatchPredicateInverted(i, L, err) ==
  IF Num(L.retries) = L.context.retries
  THEN Throw(i, L, err)
  ELSE IF ShouldRetry(L.context, err)
  THEN Throw(i, Observe(L, [ev |-> "shouldRetry", err |-> err, ret |-> TRUE]), err)
  ELSE Backoff(i, L, err)

\* the catch block with the predicate consulted before the budget test
CatchPredicateFirst(i, L, err) ==
  IF ~ShouldRetry(L.context, err)
  THEN Throw(i, Observe(L, [ev |-> "shouldRetry", err |-> err, ret |-> FALSE]), err)
  ELSE IF Num(L.retries) = L.context.retries
  THEN Throw(i, Observe(L, [ev |-> "shouldRetry", err |-> err, ret |-> TRUE]), err)
  ELSE Backoff(i, L, err)

\* the catch block with the budget test written as an ordering:
\* `retries >= context.retries`
CatchBudgetReached(i, L, err) ==
  IF L.retries * DenOf(L.context.retries) >= NumOf(L.context.retries)
  THEN Throw(i, L, err)
  ELSE IF RaisesOn(L.context.shouldRetry, err.name)
  THEN Throw(i, Observe(L, [ev |-> "shouldRetryRaised", err |-> err]),
             CallbackFailure("shouldRetry"))
  ELSE IF ~ShouldRetry(L.context, err)
  THEN Throw(i, Observe(L, [ev |-> "shouldRetry", err |-> err, ret |-> FALSE]), err)
  ELSE Backoff(i, L, err)

\* index.js execute, the catch block; what shouldRetry raises leaves the catch
\* block and execute
Catch(i, L, err) ==
  IF Num(L.retries) = L.context.retries
  THEN Throw(i, L, err)
  ELSE IF RaisesOn(L.context.shouldRetry, err.name)
  THEN Throw(i, Observe(L, [ev |-> "shouldRetryRaised", err |-> err]),
             CallbackFailure("shouldRetry"))
  ELSE IF ~ShouldRetry(L.context, err)
  THEN Throw(i, Observe(L, [ev |-> "shouldRetry", err |-> err, ret |-> FALSE]), err)
  ELSE Backoff(i, L, err)

\* the try block with the receiver lost: context.fn(...context.args)
AttemptUnbound(i, L) ==
  LET n == CountEv(L.trace, "call") + 1
      L1 == Observe(L, [ev |-> "call", n |-> n, this |-> Undefined,
                        args |-> L.context.args])
  IN \/ \E name \in ErrorNames :
          Catch(i, Observe(L1, [ev |-> "fail", n |-> n, err |-> Failure(name, n)]),
                Failure(name, n))
     \/ Commit(i, [L1 EXCEPT !.inflight = @ \cup {n}], "attempting", result[i])

\* the try block left out on the last permitted attempt (the base case of the
\* recursive executor): a synchronous raise leaves the call as an exception
AttemptUncaughtLast(i, L) ==
  LET n == CountEv(L.trace, "call") + 1
      L1 == Observe(L, [ev |-> "call", n |-> n, this |-> L.context.fnThis,
                        args |-> L.context.args])
  IN \/ \E name \in ErrorNames :
          LET L2 == Observe(L1, [ev |-> "fail", n |-> n, err |-> Failure(name, n)])
          IN IF Num(L.retries) = L.context.retries
             THEN Commit(i, L2, "done-failure",
                         [kind |-> "thrown", reason |-> Failure(name, n)])
             ELSE Catch(i, L2, Failure(name, n))
     \/ Commit(i, [L1 EXCEPT !.inflight = @ \cup {n}], "attempting", result[i])

\* index.js execute, the try block: one call of the underlying function, which
\* either raises synchronously or hands back a value or promise to await
Attempt(i, L) ==
  LET n == CountEv(L.trace, "call") + 1
      L1 == Observe(L, [ev |-> "call", n |-> n, this |-> L.context.fnThis,
                        args |-> L.context.args])
  IN \/ \E name \in ErrorNames :
          Catch(i, Observe(L1, [ev |-> "fail", n |-> n, err |-> Failure(name, n)]),
                Failure(name, n))
     \/ Commit(i, [L1 EXCEPT !.inflight = @ \cup {n}], "attempting", result[i])

\* doRetry with the initial delay left out: execute enters the loop at once
doRetrySkipInitialDelay(i) ==
  /\ setup.stage = "wrapped"
  /\ pc[i] = "idle"
  /\ LET ctx == wrapped @@ [fnThis |-> ReceiverOf(i), args |-> ArgsOf(i)]
     IN Attempt(i, [Locals(i) EXCEPT !.context = ctx, !.retries = 0])

\* doRetry reading the options objects when it is called, not the constants
\* retryWrapper captured
doRetryLateBinding(i) ==
  /\ setup.stage = "wrapped"
  /\ pc[i] = "idle"
  /\ LET ctx == wrapCall(options, setup.wrapArgs[1], setup.wrapArgs[2]) @@
                [fnThis |-> ReceiverOf(i), args |-> ArgsOf(i)]
         L == [Locals(i) EXCEPT !.context = ctx, !.retries = 0]
     IN IF ctx.initialDelay # Num(0)
        THEN Commit(i, [Observe(L, [ev |-> "setTimeout", kind |-> "initialDelay",
                                    delay |-> ctx.initialDelay])
                          EXCEPT !.timers = @ \cup {Timer("initialDelay", ctx.initialDelay)}],
                    "initialDelay", result[i])
        ELSE Attempt(i, L)

\* index.js doRetry and the start of execute, up to its first suspension
doRetry(i) ==
  /\ setup.stage = "wrapped"
  /\ pc[i] = "idle"
  /\ LET ctx == wrapped @@ [fnThis |-> ReceiverOf(i), args |-> ArgsOf(i)]
         L == [Locals(i) EXCEPT !.context = ctx, !.retries = 0]
     IN IF ctx.initialDelay # Num(0)
        THEN Commit(i, [Observe(L, [ev |-> "setTimeout", kind |-> "initialDelay",
                                    delay |-> ctx.initialDelay])
                          EXCEPT !.timers = @ \cup {Timer("initialDelay", ctx.initialDelay)}],
                    "initialDelay", result[i])
        ELSE Attempt(i, L)

\* the initial-delay timer fires: execute enters the loop
InitialDelayFires(i) ==
  \E t \in timers[i] :
    /\ t.kind = "initialDelay"
    /\ Attempt(i, Observe([Locals(i) EXCEPT !.timers = @ \ {t}],
                          [ev |-> "timeout", kind |-> t.kind, delay |-> t.delay]))

\* the backoff continuation with `retries += 2`
BackoffFiresTwice(i) ==
  \E t \in timers[i] :
    /\ t.kind = "backoff"
    /\ Attempt(i, Observe([Locals(i) EXCEPT !.timers = @ \ {t}, !.retries = @ + 2],
                          [ev |-> "timeout", kind |-> t.kind, delay |-> t.delay]))

\* the backoff armed with setInterval: the timer stays armed after it fires
BackoffFiresInterval(i) ==
  \E t \in timers[i] :
    /\ t.kind = "backoff"
    /\ Attempt(i, Observe([Locals(i) EXCEPT !.retries = @ + 1],
                          [ev |-> "timeout", kind |-> t.kind, delay |-> t.delay]))

\* the backoff promise built without its resolve: the timer fires and execute
\* is never resumed
BackoffFiresUnresolved(i) ==
  \E t \in timers[i] :
    /\ t.kind = "backoff"
    /\ Commit(i, Observe([Locals(i) EXCEPT !.timers = @ \ {t}],
                         [ev |-> "timeout", kind |-> t.kind, delay |-> t.delay]),
              "waiting", result[i])

\* the initial delay moved into the loop: it is taken before every attempt
BackoffFiresDelayInLoop(i) ==
  \E t \in timers[i] :
    /\ t.kind = "backoff"
    /\ LET L == Observe([Locals(i) EXCEPT !.timers = @ \ {t}, !.retries = @ + 1],
                        [ev |-> "timeout", kind |-> t.kind, delay |-> t.delay])
           d == L.context.initialDelay
       IN IF d # Num(0)
          THEN Commit(i, [Observe(L, [ev |-> "setTimeout", kind |-> "initialDelay",
                                      delay |-> d])
                            EXCEPT !.timers = @ \cup {Timer("initialDelay", d)}],
                      "initialDelay", result[i])
          ELSE Attempt(i, L)

\* the wait given up when its timer fires: the invocation rejects with the
\* failure that was being retried, without a further attempt
BackoffFiresGivesUp(i) ==
  \E t \in timers[i] :
    /\ t.kind = "backoff"
    /\ LET L == Observe([Locals(i) EXCEPT !.timers = @ \ {t}, !.retries = @ + 1],
                        [ev |-> "timeout", kind |-> t.kind, delay |-> t.delay])
       IN Throw(i, L, L.trace[Last(Positions(L.trace, "fail"))].err)

\* a backoff timer fires: `retries += 1`, then the next iteration of the loop
BackoffFires(i) ==
  \E t \in timers[i] :
    /\ t.kind = "backoff"
    /\ Attempt(i, Observe([Locals(i) EXCEPT !.timers = @ \ {t}, !.retries = @ + 1],
                          [ev |-> "timeout", kind |-> t.kind, delay |-> t.delay]))

\* the fulfilment with the `return` left out: the loop goes on to a new attempt
AttemptFulfilsNoReturn(i) ==
  \E n \in inflight[i], value \in Values :
    Attempt(i, Observe([Locals(i) EXCEPT !.inflight = @ \ {n}],
                       [ev |-> "ok", n |-> n, value |-> value]))

\* the awaited value or promise of an attempt fulfils
AttemptFulfils(i) ==
  \E n \in inflight[i], value \in Values :
    Return(i, Observe([Locals(i) EXCEPT !.inflight = @ \ {n}],
                      [ev |-> "ok", n |-> n, value |-> value]), value)

\* the awaited promise of an attempt rejects
AttemptRejects(i) ==
  \E n \in inflight[i], name \in ErrorNames :
    Catch(i, Observe([Locals(i) EXCEPT !.inflight = @ \ {n}],
                     [ev |-> "fail", n |-> n, err |-> Failure(name, n)]),
          Failure(name, n))

Step(i) ==
  \/ doRetry(i)
  \/ InitialDelayFires(i)
  \/ BackoffFires(i)
  \/ AttemptFulfils(i)
  \/ AttemptRejects(i)

\* one invocation of the wrapped function
Next == Step(1)

Spec == Init /\ [][Next]_vars

\* one invocation, with the fairness of the host: an armed timer fires and the
\* promise of an attempt settles
SpecLive ==
  /\ Init /\ [][Next]_vars
  /\ WF_vars(InitialDelayFires(1))
  /\ WF_vars(BackoffFires(1))
  /\ WF_vars(AttemptFulfils(1) \/ AttemptRejects(1))

(* ------------------------ the caller's side ----------------------------- *)

UnchangedCalls == UNCHANGED <<context, pc, retries, timers, inflight, trace, result>>

\* the caller changes its options objects after the function is wrapped: the
\* object given to retryify, or the one given to retryWrapper
MutateOptions ==
  /\ setup.stage = "wrapped"
  /\ \/ /\ options.retries # Num(0)
        /\ options' = [options EXCEPT !.retries = Num(0)]
        /\ UNCHANGED setup
     \/ /\ setup.wrapArgs[1][2].retries # Num(0)
        /\ setup' = [setup EXCEPT !.wrapArgs[1][2].retries = Num(0)]
        /\ UNCHANGED options
  /\ UNCHANGED <<wrapped, wrappers>>
  /\ UnchangedCalls

\* concurrent invocations of the same wrapped function
InitConc == InitWith({TestOptions}, InnerOptionsUpTo(ConcRetries), {[name |-> "addFail"]})

NextConc == \E i \in Invocations : Step(i)

SpecConc == InitConc /\ [][NextConc]_vars

\* two invocations of the same wrapped function, the caller changing its
\* options objects before, between or during them
NextMutate ==
  \/ Step(1)
  \/ Step(2)
  \/ MutateOptions

SpecMutate == InitConc /\ [][NextMutate]_vars

\* the arguments of retryify(...) the caller may give
SetupArgs ==
  {Undefined,
   Obj(NoOptions),
   Obj(TestOptions),
   Obj([NoOptions EXCEPT !.retries = Num(1), !.timeout = Null, !.factor = Num(3)]),
   Obj([NoOptions EXCEPT !.retries = Num(0), !.initialDelay = Num(0),
                         !.timeout = Num(0), !.factor = Num(0)]),
   Obj([NoOptions EXCEPT !.retries = Null, !.initialDelay = Num(InitialDelayMs),
                         !.log = Null, !.shouldRetry = Null]),
   Fun([name |-> "addFail"]),
   Fun([name |-> ""])}

\* the per-function overrides the caller may give
SetupInners ==
  {NoOptions,
   [NoOptions EXCEPT !.retries = Num(0)],
   [NoOptions EXCEPT !.retries = Null, !.timeout = Num(5), !.factor = Frac(3, 2)],
   [NoOptions EXCEPT !.initialDelay = Num(InitialDelayMs), !.log = Fun("mockLog")],
   [NoOptions EXCEPT !.retries = Num(1), !.shouldRetry = Fun({"BazError"})],
   [NoOptions EXCEPT !.retries = Num(0), !.initialDelay = Num(0),
                     !.timeout = Num(0), !.factor = Num(0)],
   [NoOptions EXCEPT !.retries = Null, !.initialDelay = Null, !.timeout = Num(0),
                     !.factor = Num(0), !.log = Null, !.shouldRetry = Null]}

\* the arguments of retryWrapper(...) the caller may give
WrapCalls ==
  {<<Obj(inner), Fun(fn)>> : inner \in SetupInners, fn \in Fns}
    \cup {<<Fun(fn), Undefined>> : fn \in Fns}
    \cup {<<Fun(fn), Obj(inner)>> :
            fn \in Fns, inner \in {[NoOptions EXCEPT !.retries = Num(0)],
                                   [NoOptions EXCEPT !.retries = Num(1),
                                                     !.shouldRetry = Fun({"BazError"})]}}

NotYet == <<Undefined, Undefined>>

InitSetup ==
  /\ setup \in {[stage |-> "new", arg |-> a, wrapArgs |-> NotYet, error |-> Undefined] :
                  a \in SetupArgs}
  /\ options = NoOptions
  /\ wrapped = NoWrapper
  /\ wrappers = <<>>
  /\ NoCalls

\* the caller calls retryify(arg)
Construct ==
  /\ setup.stage = "new"
  /\ LET c == construct(setup.arg)
     IN /\ setup' = [setup EXCEPT !.stage = IF c.threw THEN "threw" ELSE "constructed",
                                  !.error = c.error]
        /\ options' = c.options
  /\ UNCHANGED <<wrapped, wrappers>>
  /\ UnchangedCalls

\* the caller calls the returned retryWrapper
Wrap ==
  /\ setup.stage = "constructed"
  /\ \E call \in WrapCalls :
       /\ wrapped' = wrapCall(options, call[1], call[2])
       /\ wrappers' = Append(wrappers, Wrapper(call, wrapped'))
       /\ setup' = [setup EXCEPT !.stage = "wrapped", !.wrapArgs = call]
  /\ UNCHANGED options
  /\ UnchangedCalls

NextSetup ==
  \/ Construct
  \/ Wrap
  \/ Step(1)

\* construction, wrapping, then one invocation
SpecSetup == InitSetup /\ [][NextSetup]_vars

\* the calls of retryWrapper made on one factory: with overrides, with an
\* empty override object, and with the function alone
WrapsCalls ==
  {<<Obj(inner), Fun([name |-> "addFail"])>> :
     inner \in {NoOptions,
                [NoOptions EXCEPT !.retries = Num(0)],
                [NoOptions EXCEPT !.retries = Null, !.timeout = Num(5), !.factor = Frac(3, 2)],
                [NoOptions EXCEPT !.initialDelay = Num(InitialDelayMs), !.log = Fun("mockLog")]}}
    \cup {<<Fun(fn), Undefined>> : fn \in Fns}

\* the state after retryify(o), before any function is wrapped
InitWraps ==
  /\ \E o \in ConstructionOptions :
       /\ setup = [stage |-> "constructed", arg |-> Obj(o), wrapArgs |-> NotYet,
                   error |-> Undefined]
       /\ options = construct(Obj(o)).options
  /\ wrapped = NoWrapper
  /\ wrappers = <<>>
  /\ NoCalls

\* retryWrapper with the merged values written back into the options object of
\* the factory, the way retryify writes its defaults
WrapAnotherWritesBack ==
  /\ setup.stage \in {"constructed", "wrapped"}
  /\ Len(wrappers) < MaxWraps
  /\ \E call \in WrapsCalls :
       /\ wrapped' = wrapCall(options, call[1], call[2])
       /\ wrappers' = Append(wrappers, Wrapper(call, wrapped'))
       /\ setup' = [setup EXCEPT !.stage = "wrapped", !.wrapArgs = call]
       /\ options' = [f \in DOMAIN options |-> wrapped'[f]]
  /\ UnchangedCalls

\* the caller calls the retryWrapper of the factory once more; the function
\* wrapped last is the one invoked from then on
WrapAnother ==
  /\ setup.stage \in {"constructed", "wrapped"}
  /\ Len(wrappers) < MaxWraps
  /\ \E call \in WrapsCalls :
       /\ wrapped' = wrapCall(options, call[1], call[2])
       /\ wrappers' = Append(wrappers, Wrapper(call, wrapped'))
       /\ setup' = [setup EXCEPT !.stage = "wrapped", !.wrapArgs = call]
  /\ UNCHANGED options
  /\ UnchangedCalls

NextWraps ==
  \/ WrapAnother
  \/ Step(1)

\* one factory wrapping several functions, and one invocation
SpecWraps == InitWraps /\ [][NextWraps]_vars

(* ------------- the first version of index.js: retryRec, onError --------- *)

\* an array passed as an option
Arr(seq) == <<"array", seq>>

\* a constructor (Error, FooError, ...) passed as a failure category
Class(c) == <<"function", c>>

\* what a wrapped function raises or rejects with: an instance of one of two
\* subclasses of Error, or a string
Raised == ErrorNames \cup {"string"}

\* the value raised by attempt number n: a fresh object per raise, or the
\* string 'Fail!'
Thrown(kind, n) ==
  IF kind \in ErrorNames THEN Failure(kind, n)
  ELSE [name |-> kind, message |-> "Fail!", id |-> 0]

\* err instanceof userError, for the constructors Error, FooError, BarError
\* and BazError of the tests (util.inherits(..., Error))
InstanceOf(err, userError) ==
  err.name \in ErrorNames /\ (userError[2] = "Error" \/ userError[2] = err.name)

\* isMatchingError with `every` for `some`: err is an instance of all of userErrors
isMatchingErrorEvery(err, userErrors) ==
  \A k \in 1 .. Len(userErrors) : InstanceOf(err, userErrors[k])

\* isMatchingError: err is an instance of one of userErrors
isMatchingError(err, userErrors) ==
  \E k \in 1 .. Len(userErrors) : InstanceOf(err, userErrors[k])

LegacyNoOptions ==
  [retries |-> Undefined, timeout |-> Undefined, factor |-> Undefined, errors |-> Undefined]

\* retryModule: the options object after the defaults (3, 300, 2, [Error])
\* are written in
retryModule(_options) ==
  [retries |-> getOpt(_options.retries, Num(DefaultRetries)),
   timeout |-> getOpt(_options.timeout, Num(DefaultTimeout)),
   factor |-> getOpt(_options.factor, Num(DefaultFactor)),
   errors |-> getOpt(_options.errors, Arr(<<Class("Error")>>))]

\* retryFn(fn, _innerOptions): the variables captured by the closure of doRetry
retryFn(_options, fn, innerOptions) ==
  [fn |-> fn,
   retries |-> getOpt(innerOptions.retries, _options.retries),
   timeout |-> getOpt(innerOptions.timeout, _options.timeout),
   factor |-> getOpt(innerOptions.factor, _options.factor),
   errors |-> getOpt(innerOptions.errors, _options.errors)[2]]

\* onError: reject when no listed error matches, else count the attempt and
\* come back to retryRec after the delay
onError(i, L, err) ==
  IF ~isMatchingError(err, L.context.errors)
  THEN Commit(i, L, "done-failure", [kind |-> "rejected", reason |-> err])
  ELSE LET delay == Delay(L.context, L.context.attempts)
           L1 == [L EXCEPT !.context.attempts = @ + 1]
           L2 == Observe(L1, [ev |-> "setTimeout", kind |-> "backoff", delay |-> delay])
       IN Commit(i, [L2 EXCEPT !.timers = @ \cup {Timer("backoff", delay)}],
                 "waiting", result[i])

\* the outcome of a failure of the last attempt: retryRec has no handler for
\* it. A raise in the call made by doRetry leaves doRetry as an exception; a
\* raise in the callback of Promise.delay(...).then rejects the promise
LastAttemptFails(i, L, err, direct) ==
  Commit(i, L, "done-failure",
         [kind |-> IF direct THEN "thrown" ELSE "rejected", reason |-> err])

\* retryRec: one call of the wrapped function. `direct` tells the call made by
\* doRetry from the one made by the callback of Promise.delay(...).then
retryRec(i, L, direct) ==
  LET n == CountEv(L.trace, "call") + 1
      L1 == Observe(L, [ev |-> "call", n |-> n, this |-> L.context.fnThis,
                        args |-> L.context.args])
  IN \/ \E kind \in Raised :
          LET err == Thrown(kind, n)
              L2 == Observe(L1, [ev |-> "fail", n |-> n, err |-> err])
          IN IF Num(L.context.attempts) = L.context.retries
             THEN LastAttemptFails(i, L2, err, direct)
             ELSE onError(i, L2, err)
     \/ Commit(i, [L1 EXCEPT !.inflight = @ \cup {n}], "attempting", result[i])

\* doRetry of the first version: a fresh context with attempts: 0; the call
\* has a receiver, which getOpt(this, null) hands back as it is
legacyDoRetry(i) ==
  /\ setup.stage = "wrapped"
  /\ pc[i] = "idle"
  /\ LET ctx == wrapped @@ [fnThis |-> ReceiverOf(i), args |-> ArgsOf(i),
                            attempts |-> 0]
     IN retryRec(i, [Locals(i) EXCEPT !.context = ctx], TRUE)

\* Promise.delay(delay) fulfils: its callback calls retryRec
legacyDelayFires(i) ==
  \E t \in timers[i] :
    /\ t.kind = "backoff"
    /\ retryRec(i, Observe([Locals(i) EXCEPT !.timers = @ \ {t}],
                           [ev |-> "timeout", kind |-> t.kind, delay |-> t.delay]),
                FALSE)

\* the promise of an attempt rejects: onError, or on the last attempt the
\* rejection itself
legacyRejects(i) ==
  \E n \in inflight[i], kind \in Raised :
    LET err == Thrown(kind, n)
        L == Observe([Locals(i) EXCEPT !.inflight = @ \ {n}],
                     [ev |-> "fail", n |-> n, err |-> err])
    IN IF Num(L.context.attempts) = L.context.retries
       THEN LastAttemptFails(i, L, err, FALSE)
       ELSE onError(i, L, err)

\* the options of the suite of the first version: retries 2, timeout 5, factor 1.5
LegacyTestOptions ==
  [LegacyNoOptions EXCEPT !.retries = Num(2), !.timeout = Num(5), !.factor = Frac(3, 2)]

\* the state after retryModule(o)(fn, inner)
InitLegacy ==
  /\ \E o \in {LegacyNoOptions, LegacyTestOptions},
        r \in {Undefined} \cup {Num(n) : n \in 0 .. MaxRetries},
        e \in {Undefined, Arr(<<Class("BarError"), Class("BazError")>>)},
        fn \in Fns :
       LET inner == [LegacyNoOptions EXCEPT !.retries = r, !.errors = e]
       IN /\ setup = [stage |-> "wrapped", arg |-> Obj(o),
                      wrapArgs |-> <<Fun(fn), Obj(inner)>>, error |-> Undefined]
          /\ options = retryModule(o)
          /\ wrapped = retryFn(options, fn, inner)
          /\ wrappers = <<Wrapper(setup.wrapArgs, wrapped)>>
  /\ NoCalls

NextLegacy ==
  \/ legacyDoRetry(1)
  \/ legacyDelayFires(1)
  \/ AttemptFulfils(1)
  \/ legacyRejects(1)

\* one invocation of a function wrapped by the first version
SpecLegacy == InitLegacy /\ [][NextLegacy]_vars

(* ------- the error-list version (unnamed/part_002): execute by errors --- *)

ErrorsNoOptions ==
  [retries |-> Undefined, timeout |-> Undefined, factor |-> Undefined,
   errors |-> Undefined, log |-> Undefined]

\* part_002 retryify: the options object after the defaults (3, 300, 2, Error,
\* the empty log) are written in
retryifyByErrors(_options) ==
  [retries |-> getOpt(_options.retries, Num(DefaultRetries)),
   timeout |-> getOpt(_options.timeout, Num(DefaultTimeout)),
   factor |-> getOpt(_options.factor, Num(DefaultFactor)),
   errors |-> getOpt(_options.errors, Class("Error")),
   log |-> getOpt(_options.log, EmptyLog)]

\* part_002 retryWrapper: the constants captured by the closure of doRetry;
\* errors that is not an array becomes a one-element array
retryWrapperByErrors(_options, innerOptions, fn) ==
  LET errors == getOpt(innerOptions.errors, _options.errors)
  IN [fn |-> fn,
      fnName |-> FnNameOf(fn),
      retries |-> getOpt(innerOptions.retries, _options.retries),
      timeout |-> getOpt(innerOptions.timeout, _options.timeout),
      factor |-> getOpt(innerOptions.factor, _options.factor),
      errors |-> IF errors[1] = "array" THEN errors[2] ELSE <<errors>>,
      log |-> getOpt(innerOptions.log, _options.log)]

\* the backoff with the formula of the documentation of part_002,
\* timeout * Math.pow(factor, attempts)
BackoffByErrorsDocFormula(i, L, err) ==
  LET attempts == L.retries + 1
      delay == Delay(L.context, attempts)
      msg == Message(L.context, delay, attempts)
      L1 == Observe(L, [ev |-> "log", log |-> L.context.log, msg |-> msg])
      L2 == Observe(L1, [ev |-> "setTimeout", kind |-> "backoff", delay |-> delay])
  IN Commit(i, [L2 EXCEPT !.timers = @ \cup {Timer("backoff", delay)}],
            "waiting", result[i])

\* part_002 execute, the end of the catch block: log, then arm the timer
BackoffByErrors(i, L, err) ==
  LET attempts == L.retries + 1
      delay == Delay(L.context, L.retries)
      msg == Message(L.context, delay, attempts)
      L1 == Observe(L, [ev |-> "log", log |-> L.context.log, msg |-> msg])
      L2 == Observe(L1, [ev |-> "setTimeout", kind |-> "backoff", delay |-> delay])
  IN Commit(i, [L2 EXCEPT !.timers = @ \cup {Timer("backoff", delay)}],
            "waiting", result[i])

\* part_002 execute, the catch block
CatchByErrors(i, L, err) ==
  IF Num(L.retries) = L.context.retries
  THEN Throw(i, L, err)
  ELSE IF ~isMatchingError(err, L.context.errors)
  THEN Throw(i, L, err)
  ELSE BackoffByErrors(i, L, err)

\* part_002 execute, the try block
AttemptByErrors(i, L) ==
  LET n == CountEv(L.trace, "call") + 1
      L1 == Observe(L, [ev |-> "call", n |-> n, this |-> L.context.fnThis,
                        args |-> L.context.args])
  IN \/ \E kind \in Raised :
          CatchByErrors(i, Observe(L1, [ev |-> "fail", n |-> n, err |-> Thrown(kind, n)]),
                        Thrown(kind, n))
     \/ Commit(i, [L1 EXCEPT !.inflight = @ \cup {n}], "attempting", result[i])

\* part_002 doRetry of the closure w, and execute up to its first suspension
doRetryByErrors(i, w) ==
  /\ setup.stage = "wrapped"
  /\ pc[i] = "idle"
  /\ LET ctx == w @@ [fnThis |-> ReceiverOf(i), args |-> ArgsOf(i)]
     IN AttemptByErrors(i, [Locals(i) EXCEPT !.context = ctx, !.retries = 0])

\* a backoff timer fires: `retries += 1`, then the next iteration of the loop
BackoffFiresByErrors(i) ==
  \E t \in timers[i] :
    /\ t.kind = "backoff"
    /\ AttemptByErrors(i, Observe([Locals(i) EXCEPT !.timers = @ \ {t}, !.retries = @ + 1],
                                  [ev |-> "timeout", kind |-> t.kind, delay |-> t.delay]))

\* the awaited promise of an attempt rejects
AttemptRejectsByErrors(i) ==
  \E n \in inflight[i], kind \in Raised :
    CatchByErrors(i, Observe([Locals(i) EXCEPT !.inflight = @ \ {n}],
                             [ev |-> "fail", n |-> n, err |-> Thrown(kind, n)]),
                  Thrown(kind, n))

\* the errors option as the caller may give it: left out, one constructor, a
\* list of constructors, an empty list
ErrorsGiven ==
  {Undefined, Class("BazError"), Arr(<<Class("BazError")>>),
   Arr(<<Class("BarError"), Class("BazError")>>), Arr(<<>>)}

\* the options of the tests with errors for shouldRetry
ErrorsTestOptions ==
  [ErrorsNoOptions EXCEPT !.retries = Num(2), !.timeout = Num(5),
                          !.factor = Frac(3, 2), !.log = Fun("mockLog")]

\* the state after retryify(o)(inner, fn) of part_002
InitByErrors ==
  /\ \E o \in {ErrorsNoOptions, ErrorsTestOptions},
        r \in {Undefined} \cup {Num(n) : n \in 0 .. MaxRetries},
        e \in ErrorsGiven,
        fn \in Fns :
       LET inner == [ErrorsNoOptions EXCEPT !.retries = r, !.errors = e]
       IN /\ setup = [stage |-> "wrapped", arg |-> Obj(o),
                      wrapArgs |-> <<Obj(inner), Fun(fn)>>, error |-> Undefined]
          /\ options = retryifyByErrors(o)
          /\ wrapped = retryWrapperByErrors(options, inner, fn)
          /\ wrappers = <<Wrapper(setup.wrapArgs, wrapped)>>
  /\ NoCalls

NextByErrors ==
  \/ doRetryByErrors(1, wrapped)
  \/ BackoffFiresByErrors(1)
  \/ AttemptFulfils(1)
  \/ AttemptRejectsByErrors(1)

\* one invocation of a function wrapped by the error-list version
SpecByErrors == InitByErrors /\ [][NextByErrors]_vars

\* shouldRetry(err) as `err is an instance of at least one of errors`
PredicateOf(errors) == Fun({kind \in Raised : isMatchingError(Thrown(kind, 1), errors)})

\* the same function wrapped twice over the options of the tests: by the
\* predicate version (invocation 1, initialDelay 0) and by the error-list
\* version (invocation 2), with the same retries, timeout and factor
InitEquiv ==
  /\ \E r \in {Undefined} \cup {Num(n) : n \in 0 .. ConcRetries},
        e \in ErrorsGiven :
       LET fn == [name |-> "addFail"]
           innerE == [ErrorsNoOptions EXCEPT !.retries = r, !.errors = e]
           byErrors == retryWrapperByErrors(retryifyByErrors(ErrorsTestOptions), innerE, fn)
           inner == [NoOptions EXCEPT !.retries = r,
                                      !.shouldRetry = PredicateOf(byErrors.errors)]
       IN /\ setup = [stage |-> "wrapped", arg |-> Obj(TestOptions),
                      wrapArgs |-> <<Obj(inner), Fun(fn)>>, error |-> Undefined]
          /\ options = construct(Obj(TestOptions)).options
          /\ wrapped = wrapCall(options, Obj(inner), Fun(fn))
          /\ wrappers = <<Wrapper(setup.wrapArgs, wrapped),
                          Wrapper(<<Obj(innerE), Fun(fn)>>, byErrors)>>
  /\ NoCalls

NextEquiv ==
  \/ doRetry(1)
  \/ BackoffFires(1)
  \/ AttemptFulfils(1)
  \/ AttemptRejects(1)
  \/ doRetryByErrors(2, wrappers[2].config)
  \/ BackoffFiresByErrors(2)
  \/ AttemptFulfils(2)
  \/ AttemptRejectsByErrors(2)

\* the two executors side by side, each with its own outcomes
SpecEquiv == InitEquiv /\ [][NextEquiv]_vars

(* ---- the recursive error-list version (unnamed/part_000): retryRec ----- *)

\* part_000 retryWrapper: the constants captured by the closure of doRetry;
\* fnName is fn.name as it is, the empty string for an anonymous function
retryWrapperByList(_options, innerOptions, fn) ==
  LET errors == getOpt(innerOptions.errors, _options.errors)
  IN [fn |-> fn,
      fnName |-> fn.name,
      retries |-> getOpt(innerOptions.retries, _options.retries),
      timeout |-> getOpt(innerOptions.timeout, _options.timeout),
      factor |-> getOpt(innerOptions.factor, _options.factor),
      errors |-> IF errors[1] = "array" THEN errors[2] ELSE <<errors>>,
      log |-> getOpt(innerOptions.log, _options.log)]

\* onError with the message built before context.attempts is incremented
onErrorByListCountAfter(i, L, err) ==
  IF ~isMatchingError(err, L.context.errors)
  THEN Commit(i, L, "done-failure", [kind |-> "rejected", reason |-> err])
  ELSE LET delay == Delay(L.context, L.context.attempts)
           name == IF L.context.fnName # "" THEN L.context.fnName ELSE "<Anonymous>"
           msg == <<"retrying function ", name, " in ", delay, " ms : attempts: ",
                    L.context.attempts>>
           L1 == [L EXCEPT !.context.attempts = @ + 1]
           L2 == Observe(L1, [ev |-> "log", log |-> L.context.log, msg |-> msg])
           L3 == Observe(L2, [ev |-> "setTimeout", kind |-> "backoff", delay |-> delay])
       IN Commit(i, [L3 EXCEPT !.timers = @ \cup {Timer("backoff", delay)}],
                 "waiting", result[i])

\* part_000 onError: Promise.reject(err) when no listed error matches, else
\* the delay from context.attempts, the increment, the message, the log call
\* and Promise.delay(delay).then(() => retryRec(context))
onErrorByList(i, L, err) ==
  IF ~isMatchingError(err, L.context.errors)
  THEN Commit(i, L, "done-failure", [kind |-> "rejected", reason |-> err])
  ELSE LET delay == Delay(L.context, L.context.attempts)
           L1 == [L EXCEPT !.context.attempts = @ + 1]
           name == IF L.context.fnName # "" THEN L.context.fnName ELSE "<Anonymous>"
           msg == <<"retrying function ", name, " in ", delay, " ms : attempts: ",
                    L1.context.attempts>>
           L2 == Observe(L1, [ev |-> "log", log |-> L.context.log, msg |-> msg])
           L3 == Observe(L2, [ev |-> "setTimeout", kind |-> "backoff", delay |-> delay])
       IN Commit(i, [L3 EXCEPT !.timers = @ \cup {Timer("backoff", delay)}],
                 "waiting", result[i])

\* part_000 retryRec: one call of context.fn, which is Promise.method(fn): a
\* raise inside fn comes back as a rejected promise, in both branches
retryRecByList(i, L) ==
  LET n == CountEv(L.trace, "call") + 1
      L1 == Observe(L, [ev |-> "call", n |-> n, this |-> L.context.fnThis,
                        args |-> L.context.args])
  IN Commit(i, [L1 EXCEPT !.inflight = @ \cup {n}], "attempting", result[i])

\* part_000 doRetry of the closure w: a fresh context with attempts: 0
doRetryByList(i, w) ==
  /\ setup.stage = "wrapped"
  /\ pc[i] = "idle"
  /\ LET ctx == w @@ [fnThis |-> ReceiverOf(i), args |-> ArgsOf(i), attempts |-> 0]
     IN retryRecByList(i, [Locals(i) EXCEPT !.context = ctx])

\* Promise.delay(delay) fulfils: its callback calls retryRec
delayFiresByList(i) ==
  \E t \in timers[i] :
    /\ t.kind = "backoff"
    /\ retryRecByList(i, Observe([Locals(i) EXCEPT !.timers = @ \ {t}],
                                 [ev |-> "timeout", kind |-> t.kind, delay |-> t.delay]))

\* the promise of an attempt rejects: on the last attempt the rejection is
\* the result, before it the catch callback calls onError
rejectsByList(i) ==
  \E n \in inflight[i], kind \in Raised :
    LET err == Thrown(kind, n)
        L == Observe([Locals(i) EXCEPT !.inflight = @ \ {n}],
                     [ev |-> "fail", n |-> n, err |-> err])
    IN IF Num(L.context.attempts) = L.context.retries
       THEN Commit(i, L, "done-failure", [kind |-> "rejected", reason |-> err])
       ELSE onErrorByList(i, L, err)

\* the same function wrapped twice over the options of the tests: by the
\* recursive version (invocation 1) and by the loop version (invocation 2),
\* with the same retries, timeout, factor, errors and log
InitByList ==
  /\ \E r \in {Undefined} \cup {Num(n) : n \in 0 .. ConcRetries},
        e \in ErrorsGiven, fn \in Fns :
       LET inner == [ErrorsNoOptions EXCEPT !.retries = r, !.errors = e]
           defaults == retryifyByErrors(ErrorsTestOptions)
       IN /\ setup = [stage |-> "wrapped", arg |-> Obj(ErrorsTestOptions),
                      wrapArgs |-> <<Obj(inner), Fun(fn)>>, error |-> Undefined]
          /\ options = defaults
          /\ wrapped = retryWrapperByList(defaults, inner, fn)
          /\ wrappers = <<Wrapper(setup.wrapArgs, wrapped),
                          Wrapper(setup.wrapArgs, retryWrapperByErrors(defaults, inner, fn))>>
  /\ NoCalls

NextByList ==
  \/ doRetryByList(1, wrapped)
  \/ delayFiresByList(1)
  \/ AttemptFulfils(1)
  \/ rejectsByList(1)
  \/ doRetryByErrors(2, wrappers[2].config)
  \/ BackoffFiresByErrors(2)
  \/ AttemptFulfils(2)
  \/ AttemptRejectsByErrors(2)

\* the recursive and the loop executor side by side, each with its own outcomes
SpecByList == InitByList /\ [][NextByList]_vars

\* callbacks of the caller that raise: a predicate that accepts a BazError and
\* raises on a FooError, a log that raises on the second retry
RaisingInners ==
  {[NoOptions EXCEPT !.retries = r, !.initialDelay = d, !.shouldRetry = s, !.log = l] :
     r \in {Undefined} \cup {Num(n) : n \in 0 .. MaxRetries},
     d \in {Undefined, Num(InitialDelayMs)},
     s \in {Undefined, <<"function", {"BazError"}, {"FooError"}>>},
     l \in {Undefined, <<"function", "mockLog", {2}>>, <<"function", "mockLog", {1, 2, 3}>>}}

InitRaising == InitWith({TestOptions}, RaisingInners, {[name |-> "addFail"]})

\* one invocation of a function wrapped with callbacks that may raise
SpecRaising == InitRaising /\ [][Next]_vars

\* a retries that is no number of retries (-1, 1.5) beside one that is
UncheckedRetries == {Num(0 - 1), Frac(3, 2), Num(1)}

UncheckedInners ==
  {[NoOptions EXCEPT !.retries = r, !.initialDelay = d] :
     r \in UncheckedRetries, d \in {Undefined, Num(InitialDelayMs)}}

InitUnchecked == InitWith({TestOptions}, UncheckedInners, {[name |-> "addFail"]})

\* one invocation, followed until its counter reaches MaxCounter
NextUnchecked ==
  \/ doRetry(1)
  \/ InitialDelayFires(1)
  \/ (retries[CounterOf(1)] < MaxCounter /\ BackoffFires(1))
  \/ AttemptFulfils(1)
  \/ AttemptRejects(1)

SpecUnchecked == InitUnchecked /\ [][NextUnchecked]_vars

\* retryify with the options copied before the defaults are filled in: the
\* factory holds an object of its own
ClosureOwnCopy(arg) ==
  [shared |-> FALSE, own |-> retryify(IF arg = Undefined THEN NoOptions ELSE arg[2])]

\* the `options` the closure of retryWrapper holds after retryify(arg): the
\* object the caller passed, by reference, or the fresh {} of the default
\* parameter with the defaults written in
Closure(arg) ==
  IF arg = Undefined
  THEN [shared |-> FALSE, own |-> retryify(NoOptions)]
  ELSE [shared |-> TRUE, own |-> NoOptions]

\* the `options` a retryWrapper reads when it is called; here the variable
\* options is the one object of the caller
OptionsOf(closure) == IF closure.shared THEN options ELSE closure.own

\* the options object the caller writes before it builds a factory from it
SharedObjects == {[NoOptions EXCEPT !.retries = Num(2)]}

\* the calls of retryWrapper made on the factories built from one object
SharedCalls ==
  {<<Fun([name |-> "addFail"]), Undefined>>,
   <<Obj([NoOptions EXCEPT !.initialDelay = Num(InitialDelayMs)]),
     Fun([name |-> "addFail"])>>}

InitShared ==
  /\ \E o \in SharedObjects :
       /\ setup = [stage |-> "new", arg |-> Obj(o), wrapArgs |-> NotYet,
                   error |-> Undefined, factories |-> <<>>, madeBy |-> <<>>]
       /\ options = o
  /\ wrapped = NoWrapper
  /\ wrappers = <<>>
  /\ NoCalls

\* the caller calls retryify(o) with its object, or retryify() with nothing;
\* setup.factories keeps, per factory, whether the object was given, the
\* object as the call left it, and the closure
ConstructShared ==
  /\ Len(setup.factories) < MaxFactories
  /\ pc[1] = "idle"
  /\ \E arg \in {Obj(options), Undefined} :
       /\ options' = IF arg = Undefined THEN options ELSE construct(arg).options
       /\ setup' = [setup EXCEPT !.stage = IF @ = "new" THEN "constructed" ELSE @,
                                 !.factories = Append(@, [given |-> arg # Undefined,
                                                          object |-> options',
                                                          closure |-> Closure(arg)])]
  /\ UNCHANGED <<wrapped, wrappers>>
  /\ UnchangedCalls

\* the caller writes a field of its object: o.retries = 0; the caller's side
\* is followed until the function wrapped last is invoked
CallerWrites ==
  /\ pc[1] = "idle"
  /\ options.retries # Num(0)
  /\ options' = [options EXCEPT !.retries = Num(0)]
  /\ UNCHANGED <<setup, wrapped, wrappers>>
  /\ UnchangedCalls

\* the caller calls the retryWrapper of one of the factories; setup.madeBy
\* keeps, per wrapper, the factory and the caller's object as it was then
WrapShared ==
  /\ Len(wrappers) < MaxWraps
  /\ pc[1] = "idle"
  /\ \E k \in 1 .. Len(setup.factories), call \in SharedCalls :
       /\ wrapped' = wrapCall(OptionsOf(setup.factories[k].closure), call[1], call[2])
       /\ wrappers' = Append(wrappers, Wrapper(call, wrapped'))
       /\ setup' = [setup EXCEPT !.stage = "wrapped", !.wrapArgs = call,
                                 !.madeBy = Append(@, [factory |-> k, object |-> options])]
  /\ UNCHANGED options
  /\ UnchangedCalls

NextShared ==
  \/ ConstructShared
  \/ CallerWrites
  \/ WrapShared
  \/ Step(1)

\* factories built from one options object of the caller, the caller writing
\* to it, and one invocation of the function wrapped last
SpecShared == InitShared /\ [][NextShared]_vars

(* ----------------------- observations on a trace ------------------------ *)

\* the number of calls of the underlying function made by invocation i
Calls(i) == CountEv(trace[i], "call")

\* the number of calls of the log callback made by invocation i
Logs(i) == CountEv(trace[i], "log")

\* the backoff timers armed by invocation i, in order
BackoffsArmed(i) ==
  SelectSeq(trace[i], LAMBDA e : e.ev = "setTimeout" /\ e.kind = "backoff")

\* the backoff timers of invocation i that have fired, in order
BackoffsFired(i) ==
  SelectSeq(trace[i], LAMBDA e : e.ev = "timeout" /\ e.kind = "backoff")

\* the configured retries of invocation i, a non-negative integer in Init
Budget(i) == NumOf(context[i].retries)

Called(i) == pc[i] # "idle"

\* every failure invocation i has seen so far is one shouldRetry accepts
AllRetryable(i) ==
  \A k \in Positions(trace[i], "fail") : ShouldRetry(context[i], trace[i][k].err)

\* no attempt of invocation i has succeeded
NoSuccess(i) == Positions(trace[i], "ok") = {}

(* -------------------------------- claims -------------------------------- *)

\* C1: when every attempt fails with a failure shouldRetry accepts, the
\* underlying function is called exactly retries + 1 times (never more), and
\* the invocation then rejects with the failure raised by attempt retries + 1.
C1_AlwaysFailing ==
  \A i \in Invocations :
    (Called(i) /\ AllRetryable(i) /\ NoSuccess(i)) =>
      /\ Calls(i) <= Budget(i) + 1
      /\ pc[i] = "done-failure" =>
           /\ Calls(i) = Budget(i) + 1
           /\ result[i] = [kind |-> "rejected",
                           reason |-> trace[i][Last(Positions(trace[i], "fail"))].err]
           /\ result[i].reason.id = Budget(i) + 1

C1_Witness ==
  \E i \in Invocations :
    /\ pc[i] = "done-failure" /\ AllRetryable(i) /\ NoSuccess(i)
    /\ context[i].retries = Num(2) /\ Calls(i) = 3

\* C2: a failure that shouldRetry rejects ends the invocation, at the first
\* failure and at every later one: no call of the underlying function follows
\* it and the invocation rejects with that failure.
C2_PredicateRejects ==
  \A i \in Invocations :
    \A k \in Positions(trace[i], "fail") :
      ~ShouldRetry(context[i], trace[i][k].err) =>
        /\ \A m \in Positions(trace[i], "call") : m < k
        /\ pc[i] = "done-failure"
        /\ result[i] = [kind |-> "rejected", reason |-> trace[i][k].err]

\* the second failure is rejected by the predicate, with budget left, after
\* the first one was accepted
C2_Witness ==
  \E i \in Invocations :
    /\ pc[i] = "done-failure"
    /\ Calls(i) = 2 /\ retries[i] = 1 /\ Budget(i) >= 2
    /\ Len(SelectSeq(trace[i], LAMBDA e : e.ev = "shouldRetry" /\ e.ret)) = 1
    /\ ~ShouldRetry(context[i], result[i].reason)

\* C3: with retries = 0 the underlying function is called exactly once,
\* whatever the outcome and the predicate, with no backoff and no log call.
C3_ZeroRetries ==
  \A i \in Invocations :
    (Called(i) /\ context[i].retries = Num(0)) =>
      /\ Calls(i) <= 1
      /\ pc[i] \in {"attempting", "done-success", "done-failure"} => Calls(i) = 1
      /\ Logs(i) = 0
      /\ Len(BackoffsArmed(i)) = 0
      /\ pc[i] # "waiting"
      /\ \A t \in timers[i] : t.kind # "backoff"

\* a failure the predicate would accept ends an invocation with retries = 0
C3_Witness ==
  \E i \in Invocations :
    /\ pc[i] = "done-failure" /\ context[i].retries = Num(0)
    /\ ShouldRetry(context[i], result[i].reason) /\ Calls(i) = 1

\* C4: the retry counter starts at 0, counts the retries taken (one per backoff
\* that has elapsed) and never exceeds the configured retries.
C4_CounterBounded ==
  \A i \in Invocations :
    /\ retries[i] = Len(BackoffsFired(i))
    /\ retries[i] >= 0
    /\ Called(i) => retries[i] <= Budget(i)
    /\ ~Called(i) => retries[i] = 0

C4_Witness ==
  \E i \in Invocations : retries[i] = 2 /\ Budget(i) = 2 /\ pc[i] = "attempting"

\* C5: an invocation that ends in failure rejects with the very failure value
\* raised by the last attempt that was made.
C5_FailureVerbatim ==
  \A i \in Invocations :
    (pc[i] = "done-failure" \/ result[i].kind = "rejected") =>
      LET k == Last(Positions(trace[i], "fail"))
      IN /\ Positions(trace[i], "fail") # {}
         /\ trace[i][k].n = Calls(i)
         /\ result[i] = [kind |-> "rejected", reason |-> trace[i][k].err]
         /\ result[i].reason = Failure(result[i].reason.name, Calls(i))

\* a retried failure followed by a final failure of another class
C5_Witness ==
  \E i \in Invocations :
    /\ pc[i] = "done-failure" /\ Calls(i) = 2
    /\ trace[i][Last(Positions(trace[i], "fail"))].err.name = "FooError"
    /\ \E k \in Positions(trace[i], "fail") : trace[i][k].err.name = "BazError"

\* C6: an invocation whose k-th attempt succeeds, the k - 1 attempts before it
\* having failed, resolves with the value of the k-th attempt after exactly
\* k - 1 log calls, for k from 1 to retries + 1.
C6_SucceedsOnKth ==
  \A i \in Invocations :
    \A p \in Positions(trace[i], "ok") :
      LET k == trace[i][p].n
      IN /\ k = Calls(i)
         /\ k \in 1 .. Budget(i) + 1
         /\ CountEv(trace[i], "fail") = k - 1
         /\ pc[i] = "done-success"
         /\ result[i] = [kind |-> "resolved", value |-> trace[i][p].value]
         /\ Logs(i) = k - 1

\* test/test_retry.js `twice, error on first call`: two failures, then 6
C6_Witness ==
  \E i \in Invocations :
    /\ pc[i] = "done-success" /\ Calls(i) = 3 /\ Logs(i) = 2
    /\ context[i].retries = Num(2)
    /\ result[i] = [kind |-> "resolved", value |-> 6]

\* C7: the attempts of one invocation are strictly sequential: at most one is
\* in flight, none is in flight while a timer is pending, and attempt n + 1 is
\* started by the firing of the backoff timer armed after the failure of
\* attempt n.
C7_Sequential ==
  \A i \in Invocations :
    /\ Cardinality(inflight[i]) <= 1
    /\ Cardinality(timers[i]) <= 1
    /\ timers[i] # {} => inflight[i] = {}
    /\ \A n \in inflight[i] : n = Calls(i)
    /\ \A p \in Positions(trace[i], "call") :
         trace[i][p].n > 1 =>
           /\ p > 1
           /\ trace[i][p - 1].ev = "timeout" /\ trace[i][p - 1].kind = "backoff"
           /\ \E f \in Positions(trace[i], "fail"), a \in Positions(trace[i], "setTimeout") :
                /\ trace[i][f].n = trace[i][p].n - 1
                /\ f < a /\ a < p - 1
                /\ trace[i][a].kind = "backoff"
                /\ trace[i][a].delay = trace[i][p - 1].delay
                /\ \A q \in Positions(trace[i], "call") : ~(f < q /\ q < p)

\* the third attempt is in flight after two backoffs
C7_Witness ==
  \E i \in Invocations :
    /\ inflight[i] = {3} /\ pc[i] = "attempting"
    /\ Len(BackoffsFired(i)) = 2

Views == [i \in Invocations |->
            <<context[i], pc[i], retries[i], timers[i], inflight[i], trace[i], result[i]>>]

\* C8: concurrent invocations of the same wrapped function are independent: a
\* step of one invocation changes nothing of another, and the retry counter,
\* the number of attempts, the backoff delays and the outcome of each are those
\* of its own trace and budget.
C8_Independent ==
  /\ [][\A i, j \in Invocations :
          (i # j /\ trace'[i] # trace[i]) => Views'[j] = Views[j]]_vars
  /\ [](\A i \in Invocations :
          /\ retries[i] = Len(BackoffsFired(i))
          /\ Called(i) => Calls(i) <= Budget(i) + 1
          /\ pc[i] \in {"attempting", "waiting", "done-success", "done-failure"} =>
               Calls(i) = retries[i] + 1
          /\ \A k \in 1 .. Len(BackoffsArmed(i)) :
               BackoffsArmed(i)[k].delay = Delay(context[i], k - 1)
          /\ \A p \in Positions(trace[i], "call") :
               trace[i][p].this = ReceiverOf(i) /\ trace[i][p].args = ArgsOf(i)
          /\ pc[i] = "done-failure" =>
               /\ result[i].kind = "rejected"
               /\ \E p \in Positions(trace[i], "fail") : result[i].reason = trace[i][p].err
          /\ pc[i] = "done-success" =>
               /\ result[i].kind = "resolved"
               /\ \E p \in Positions(trace[i], "ok") : result[i].value = trace[i][p].value)

\* two invocations in flight, the first one on its first retry, the second not
C8_Witness ==
  /\ pc[1] = "attempting" /\ retries[1] = 1
  /\ pc[2] = "attempting" /\ retries[2] = 0

\* C9: the backoff armed and waited before retry k is timeout * factor^(k-1):
\* timeout, then timeout * factor, then timeout * factor^2.
C9_BackoffDelay ==
  \A i \in Invocations :
    LET armed == BackoffsArmed(i)
        fired == BackoffsFired(i)
        t == context[i].timeout
        f == context[i].factor
    IN /\ \A k \in 1 .. Len(armed) :
            /\ armed[k].delay = Reduce(NumOf(t) * Pow(NumOf(f), k - 1),
                                       DenOf(t) * Pow(DenOf(f), k - 1))
            /\ k = 1 => armed[k].delay = <<NumOf(t), DenOf(t)>>
            /\ (k = 2 /\ t = Num(5) /\ f = Frac(3, 2)) => armed[k].delay = <<15, 2>>
            /\ (k = 3 /\ t = Num(300) /\ f = Num(2)) => armed[k].delay = <<1200, 1>>
       /\ \A k \in 1 .. Len(fired) : fired[k].delay = armed[k].delay

\* test/test_retry.js options: the second retry waits 7.5 ms
C9_Witness ==
  \E i \in Invocations :
    /\ Len(BackoffsFired(i)) = 2
    /\ BackoffsFired(i)[1].delay = <<5, 1>>
    /\ BackoffsFired(i)[2].delay = <<15, 2>>

\* C10: with initialDelay = d > 0 the underlying function is not called when
\* the wrapped call returns nor before the timer of d has fired, and it is
\* called when that timer fires.
C10_InitialDelay ==
  \A i \in Invocations :
    (Called(i) /\ NumOf(context[i].initialDelay) > 0) =>
      LET d == context[i].initialDelay
      IN /\ trace[i][1] = [ev |-> "setTimeout", kind |-> "initialDelay", delay |-> d]
         /\ pc[i] = "initialDelay" <=> Len(trace[i]) = 1
         /\ pc[i] = "initialDelay" =>
              Calls(i) = 0 /\ timers[i] = {Timer("initialDelay", d)}
         /\ Len(trace[i]) > 1 =>
              /\ trace[i][2] = [ev |-> "timeout", kind |-> "initialDelay", delay |-> d]
              /\ trace[i][3].ev = "call"
              /\ Timer("initialDelay", d) \notin timers[i]
         /\ \A p \in Positions(trace[i], "call") : p > 2

\* the first attempt is in flight after the initial delay of 1500 ms
C10_Witness ==
  \E i \in Invocations :
    /\ pc[i] = "attempting" /\ Calls(i) = 1 /\ Len(trace[i]) = 3
    /\ context[i].initialDelay = Num(InitialDelayMs)

\* C11: every attempt of an invocation calls the underlying function with the
\* receiver and the argument list of the wrapped call, and the context (the
\* receiver, the arguments and the config) is never changed between attempts.
C11_SameReceiverAndArgs ==
  \A i \in Invocations :
    /\ \A p \in Positions(trace[i], "call") :
         /\ trace[i][p].this = ReceiverOf(i)
         /\ trace[i][p].args = ArgsOf(i)
    /\ Called(i) =>
         /\ context[i].fnThis = ReceiverOf(i)
         /\ context[i].args = ArgsOf(i)
         /\ \A f \in DOMAIN wrapped : context[i][f] = wrapped[f]

\* test/test_retry.js `promise fn with this bound`, on a retried attempt
C11_Witness ==
  \E i \in Invocations :
    /\ Calls(i) = 3 /\ pc[i] = "attempting"
    /\ trace[i][Last(Positions(trace[i], "call"))].this.foo = "this is a foo"
    /\ trace[i][Last(Positions(trace[i], "call"))].args = <<i, 2, 3>>

\* the failure that a step of invocation i has just observed went through the
\* budget test, then the predicate, then the backoff
FailureHandled(i) ==
  LET tr == trace'[i]
      f == Last(Positions(tr, "fail"))
      err == tr[f].err
  IN IF Num(retries'[i]) = context'[i].retries
     THEN /\ Len(tr) = f
          /\ pc'[i] = "done-failure"
          /\ result'[i] = [kind |-> "rejected", reason |-> err]
     ELSE IF ~ShouldRetry(context'[i], err)
     THEN /\ Len(tr) = f + 1
          /\ tr[f + 1] = [ev |-> "shouldRetry", err |-> err, ret |-> FALSE]
          /\ pc'[i] = "done-failure"
          /\ result'[i] = [kind |-> "rejected", reason |-> err]
     ELSE /\ Len(tr) = f + 3
          /\ tr[f + 1] = [ev |-> "shouldRetry", err |-> err, ret |-> TRUE]
          /\ tr[f + 2].ev = "log"
          /\ tr[f + 3].ev = "setTimeout"
          /\ pc'[i] = "waiting"
          /\ result'[i] = Pending

\* C12: a failure of the underlying function is handled the same way whether
\* it is raised synchronously (in the step that makes the call) or by a
\* rejection (in a later step), the last permitted attempt included; the
\* wrapped call always hands back a promise and never an exception.
C12_UniformFailureChannel ==
  /\ [][\A i \in Invocations :
          CountEv(trace'[i], "fail") = CountEv(trace[i], "fail") + 1 => FailureHandled(i)]_vars
  /\ [](\A i \in Invocations : result[i].kind \in {"pending", "resolved", "rejected"})

\* test/test_retry.js `once, error on first call, standard fn`: the budget is
\* used up and the last permitted attempt has failed
C12_Witness ==
  \E i \in Invocations :
    /\ pc[i] = "done-failure" /\ result[i].kind = "rejected"
    /\ context[i].retries = Num(1) /\ context[i].initialDelay = Num(0)
    /\ Calls(i) = 2 /\ retries[i] = 1

\* C13: log is called once for each retry taken and at no other time: each
\* log call follows an accepted failure and is followed by the arming of the
\* backoff timer, and a settled invocation has made attempts - 1 log calls.
C13_LogOncePerRetry ==
  \A i \in Invocations :
    /\ Logs(i) = Len(BackoffsArmed(i))
    /\ \A p \in Positions(trace[i], "log") :
         /\ p > 2 /\ p < Len(trace[i])
         /\ trace[i][p].log = context[i].log
         /\ trace[i][p - 2].ev = "fail"
         /\ trace[i][p - 1] = [ev |-> "shouldRetry", err |-> trace[i][p - 2].err, ret |-> TRUE]
         /\ trace[i][p + 1].ev = "setTimeout" /\ trace[i][p + 1].kind = "backoff"
    /\ pc[i] \in {"attempting", "done-success", "done-failure"} => Logs(i) = Calls(i) - 1
    /\ pc[i] = "waiting" => Logs(i) = Calls(i)

\* test/test_retry.js `log should get called on retry`: the observer was
\* called twice, the third failure ends the invocation without a log call
C13_Witness ==
  \E i \in Invocations :
    /\ pc[i] = "done-failure" /\ Calls(i) = 3 /\ Logs(i) = 2
    /\ context[i].log = Fun("mockLog")
    /\ trace[i][Len(trace[i])].ev = "fail"

\* C14: retryify called with a function throws the TypeError 'options object
\* expected but was passed a function': no wrapper comes back, nothing is
\* invoked and no timer is armed.
C14_FunctionAsOptions ==
  /\ setup.arg[1] = "function" =>
       /\ setup.stage \in {"new", "threw"}
       /\ wrapped = NoWrapper
       /\ \A i \in Invocations :
            pc[i] = "idle" /\ trace[i] = <<>> /\ timers[i] = {} /\ inflight[i] = {}
  /\ setup.stage = "threw" =>
       /\ setup.arg[1] = "function"
       /\ setup.error.name = "TypeError"
       /\ setup.error.message = "options object expected but was passed a function"
  /\ setup.stage \in {"constructed", "wrapped"} => setup.error = Undefined

\* test/test_retry.js `function passed to setup function`
C14_Witness == setup.stage = "threw" /\ setup.arg = Fun([name |-> ""])

OptionFields == {"retries", "initialDelay", "timeout", "factor", "shouldRetry", "log"}

Specified(v) == v # Undefined /\ v # Null

\* the hardcoded default of an option
HardcodedDefault(f) ==
  CASE f = "retries" -> <<"number", 3>>
    [] f = "initialDelay" -> <<"number", 0>>
    [] f = "timeout" -> <<"number", 300>>
    [] f = "factor" -> <<"number", 2>>
    [] f = "shouldRetry" -> <<"function", {"FooError", "BazError"}>>
    [] f = "log" -> <<"function", "empty">>

\* the options object the caller gave to retryify, as given
GivenAtConstruction == IF setup.arg[1] = "object" THEN setup.arg[2] ELSE NoOptions

\* the override object the caller gave to retryWrapper, as given
GivenAtWrapping ==
  IF setup.wrapArgs[1][1] = "object" THEN setup.wrapArgs[1][2] ELSE NoOptions

\* C15: each field of the config of a wrapped function is the per-function
\* override when one is given, else the value given at construction, else the
\* hardcoded default.
C15_ConfigPrecedence ==
  setup.stage = "wrapped" =>
    \A f \in OptionFields :
      wrapped[f] = IF Specified(GivenAtWrapping[f]) THEN GivenAtWrapping[f]
                   ELSE IF Specified(GivenAtConstruction[f]) THEN GivenAtConstruction[f]
                   ELSE HardcodedDefault(f)

\* an override of timeout and factor over the construction options of the
\* tests, retries inherited from them, initialDelay from the hardcoded default
C15_Witness ==
  /\ setup.stage = "wrapped"
  /\ setup.arg = Obj([NoOptions EXCEPT !.retries = Num(1), !.timeout = Null, !.factor = Num(3)])
  /\ wrapped.timeout = Num(5) /\ wrapped.factor = Frac(3, 2)
  /\ wrapped.retries = Num(1) /\ wrapped.initialDelay = Num(0)

\* nothing was given at construction nor at wrapping
NoOptionsGiven ==
  /\ setup.stage = "wrapped"
  /\ \A f \in OptionFields :
       ~Specified(GivenAtConstruction[f]) /\ ~Specified(GivenAtWrapping[f])

\* the delays of the backoff timers of invocation i that have fired
DelaysWaited(i) == [k \in 1 .. Len(BackoffsFired(i)) |-> BackoffsFired(i)[k].delay]

\* C16: with no options the config is retries 3, initialDelay 0, timeout 300,
\* factor 2, shouldRetry always true and the empty log; a function that always
\* fails is attempted 4 times, with no wait before the first attempt and
\* backoffs of 300, 600 and 1200 ms.
C16_Defaults ==
  NoOptionsGiven =>
    /\ wrapped.retries = <<"number", 3>>
    /\ wrapped.initialDelay = <<"number", 0>>
    /\ wrapped.timeout = <<"number", 300>>
    /\ wrapped.factor = <<"number", 2>>
    /\ \A name \in ErrorNames : name \in wrapped.shouldRetry[2]
    /\ wrapped.log = <<"function", "empty">>
    /\ \A i \in Invocations :
         /\ Called(i) => trace[i][1].ev = "call"
         /\ Calls(i) <= 4
         /\ \A k \in 1 .. Len(DelaysWaited(i)) :
              DelaysWaited(i)[k] = <<<<300, 1>>, <<600, 1>>, <<1200, 1>>>>[k]
         /\ (pc[i] = "done-failure" /\ NoSuccess(i)) =>
              /\ Calls(i) = 4
              /\ DelaysWaited(i) = <<<<300, 1>>, <<600, 1>>, <<1200, 1>>>>
         /\ pc[i] = "done-failure" => NoSuccess(i)

\* retryLib()(fn) with fn always failing: the fourth attempt has failed
C16_Witness ==
  /\ NoOptionsGiven /\ setup.arg = Undefined /\ setup.wrapArgs[1][1] = "function"
  /\ pc[1] = "done-failure" /\ Calls(1) = 4 /\ Len(DelaysWaited(1)) = 3

Settled(i) == pc[i] \in {"done-success", "done-failure"}

\* C17: done-success and done-failure are terminal: a success is returned at
\* once, a settled invocation has no timer and no attempt pending and never
\* changes again, and a function that never fails is called exactly once.
C17_Terminal ==
  /\ [](\A i \in Invocations :
          /\ Settled(i) =>
               /\ timers[i] = {} /\ inflight[i] = {}
               /\ result[i].kind = IF pc[i] = "done-success" THEN "resolved" ELSE "rejected"
          /\ \A p \in Positions(trace[i], "ok") :
               p = Len(trace[i]) /\ pc[i] = "done-success"
          /\ Positions(trace[i], "fail") = {} => Calls(i) <= 1
          /\ result[i].kind # "pending" => Settled(i))
  /\ [][\A i \in Invocations : Settled(i) => Views'[i] = Views[i]]_vars

\* test/test_retry.js `retries but never error`: retries 3, one call
C17_Witness ==
  \E i \in Invocations :
    /\ pc[i] = "done-success" /\ context[i].retries = Num(3)
    /\ Calls(i) = 1 /\ Len(trace[i]) = 2

\* C18: when every armed timer fires and every attempt settles, every
\* invocation that was started settles, after at most retries + 1 attempts.
C18_Settles ==
  /\ [](\A i \in Invocations : Called(i) => Calls(i) <= Budget(i) + 1)
  /\ (\E i \in Invocations : Called(i) /\ ~Settled(i)) ~> (\A i \in Invocations : Called(i) => Settled(i))

\* the default budget used up after the initial delay
C18_Witness ==
  \E i \in Invocations :
    /\ Settled(i) /\ context[i].retries = Num(3) /\ Calls(i) = 4
    /\ context[i].initialDelay = Num(InitialDelayMs)

\* the messages passed to log by invocation i, in order
Messages(i) ==
  LET logged == SelectSeq(trace[i], LAMBDA e : e.ev = "log")
  IN [k \in 1 .. Len(logged) |-> logged[k].msg]

\* C19: the message of the k-th retry is 'retrying function <name> in <delay>
\* ms : attempts: <k>', with the backoff about to be waited as <delay> and the
\* name of the underlying function, or '<Anonymous>', as <name>.
C19_LogMessage ==
  \A i \in Invocations :
    \A k \in 1 .. Len(Messages(i)) :
      LET t == context[i].timeout
          f == context[i].factor
      IN /\ Messages(i)[k] =
              <<"retrying function ",
                IF context[i].fn.name = "" THEN "<Anonymous>" ELSE context[i].fn.name,
                " in ",
                Reduce(NumOf(t) * Pow(NumOf(f), k - 1), DenOf(t) * Pow(DenOf(f), k - 1)),
                " ms : attempts: ",
                k>>
         /\ Messages(i)[k][4] = BackoffsArmed(i)[k].delay
         /\ \A p \in Positions(trace[i], "log") :
              /\ trace[i][p].msg[6] =
                   Cardinality({q \in Positions(trace[i], "call") : q < p})
              /\ trace[i][p].msg[6] =
                   Cardinality({q \in Positions(trace[i], "timeout") :
                                  q < p /\ trace[i][q].kind = "backoff"}) + 1

\* the second retry of an anonymous function: 7.5 ms, attempts: 2
C19_Witness ==
  \E i \in Invocations :
    /\ Len(Messages(i)) = 2
    /\ Messages(i)[2] = <<"retrying function ", "<Anonymous>", " in ", <<15, 2>>,
                          " ms : attempts: ", 2>>

\* C20: the config of a wrapped function is fixed when it is wrapped: it never
\* changes afterwards, whatever the caller does to its options objects, and
\* every invocation, earlier, later or concurrent, runs with it.
C20_ConfigFixed ==
  /\ [][setup.stage = "wrapped" => wrapped' = wrapped]_vars
  /\ [](\A i \in Invocations :
          Called(i) =>
            /\ \A f \in OptionFields : context[i][f] = wrapped[f]
            /\ Calls(i) <= NumOf(wrapped.retries) + 1
            /\ (pc[i] = "done-failure" /\ AllRetryable(i)) =>
                 Calls(i) = NumOf(wrapped.retries) + 1)

\* both options objects were changed to retries: 0 and two invocations are on
\* their first retry
C20_Witness ==
  /\ options.retries = Num(0) /\ setup.wrapArgs[1][2].retries = Num(0)
  /\ setup.arg[2].retries = Num(2)
  /\ wrapped.retries = Num(1)
  /\ retries[1] = 1 /\ retries[2] = 1


Least(S) == CHOOSE k \in S : \A m \in S : k <= m

\* the attempts of invocation i that have succeeded
Succeeded(i) == {trace[i][p].n : p \in Positions(trace[i], "ok")}

\* the attempts of invocation i that failed with a failure shouldRetry rejects
FailedRejected(i) ==
  {trace[i][p].n : p \in {q \in Positions(trace[i], "fail") :
                            ~ShouldRetry(context[i], trace[i][q].err)}}

\* the attempts of invocation i that failed
Failed(i) == {trace[i][p].n : p \in Positions(trace[i], "fail")}

\* C21: the number of attempts of a settled invocation is the least of
\* retries + 1, the index of the first attempt that succeeds and the index of
\* the first failed attempt whose failure shouldRetry rejects; it resolves when
\* that attempt succeeded and rejects otherwise; an invocation that has not
\* settled has made fewer attempts, or is awaiting the outcome of that one.
C21_AttemptsMinimum ==
  \A i \in Invocations :
    Called(i) =>
      LET m == Least({Budget(i) + 1} \cup Succeeded(i) \cup FailedRejected(i))
      IN /\ Calls(i) <= m
         /\ Settled(i) =>
              /\ Calls(i) = m
              /\ m \in Succeeded(i) \cup Failed(i)
              /\ result[i].kind = IF m \in Succeeded(i) THEN "resolved" ELSE "rejected"
         /\ ~Settled(i) =>
              /\ Succeeded(i) = {} /\ FailedRejected(i) = {}
              /\ Budget(i) + 1 \notin Failed(i)
              /\ result[i] = Pending

\* the second attempt succeeds with budget left, after a failure that a
\* predicate of the caller accepted
C21_Witness ==
  \E i \in Invocations :
    /\ pc[i] = "done-success" /\ Budget(i) = 2
    /\ Succeeded(i) = {2} /\ Failed(i) = {1} /\ FailedRejected(i) = {}
    /\ context[i].shouldRetry = Fun({"BazError"})


\* the number of calls of shouldRetry made by invocation i
PredicateCalls(i) == CountEv(trace[i], "shouldRetry")

\* C22: on a failure the budget test comes before the predicate: shouldRetry is
\* called exactly once, with the failure of the attempt, for each failed
\* attempt with budget left, never for a failure of the last permitted attempt
\* and never after a success, so that an invocation calls it at most retries
\* times.
C22_BudgetBeforePredicate ==
  \A i \in Invocations :
    LET tr == trace[i]
    IN /\ \A p \in Positions(tr, "fail") :
            IF tr[p].n - 1 < Budget(i)
            THEN /\ p < Len(tr)
                 /\ tr[p + 1].ev = "shouldRetry"
                 /\ tr[p + 1].err = tr[p].err
                 /\ tr[p + 1].ret = ShouldRetry(context[i], tr[p].err)
                 /\ p + 1 < Len(tr) => tr[p + 2].ev # "shouldRetry"
            ELSE /\ tr[p].n - 1 = Budget(i)
                 /\ p = Len(tr)
       /\ \A q \in Positions(tr, "shouldRetry") : q > 1 /\ tr[q - 1].ev = "fail"
       /\ \A p \in Positions(tr, "ok") : p = Len(tr)
       /\ Called(i) => PredicateCalls(i) <= Budget(i)
       /\ PredicateCalls(i) =
            Cardinality({p \in Positions(tr, "fail") : tr[p].n - 1 < Budget(i)})

\* the last permitted attempt fails with a failure the predicate of the caller
\* would reject: the predicate was asked for the two failures before it only
C22_Witness ==
  \E i \in Invocations :
    /\ pc[i] = "done-failure" /\ Budget(i) = 2 /\ Calls(i) = 3
    /\ PredicateCalls(i) = 2
    /\ context[i].shouldRetry = Fun({"BazError"})
    /\ result[i].reason.name = "FooError"


\* the events of one retry step of invocation i end at position p of its trace,
\* where attempt n starts
RetryStepBefore(i, p, n) ==
  LET tr == trace[i]
  IN /\ p > 5
     /\ tr[p - 5].ev = "fail" /\ tr[p - 5].n = n - 1
     /\ tr[p - 4] = [ev |-> "shouldRetry", err |-> tr[p - 5].err, ret |-> TRUE]
     /\ tr[p - 3].ev = "log" /\ tr[p - 3].msg[6] = n - 1
     /\ tr[p - 2].ev = "setTimeout" /\ tr[p - 2].kind = "backoff"
     /\ tr[p - 1] = [ev |-> "timeout", kind |-> "backoff", delay |-> tr[p - 2].delay]

\* C23: a retry step is, in this order: the attempt fails, shouldRetry accepts,
\* log is called, the backoff timer is armed and fires, the retry counter is
\* incremented, the next attempt starts; the log call of retry k precedes the
\* start of attempt k + 1, and during the whole wait the counter still has the
\* value it had when the attempt failed.
C23_RetryStepOrder ==
  /\ [](\A i \in Invocations :
          /\ \A p \in Positions(trace[i], "call") :
               trace[i][p].n > 1 => RetryStepBefore(i, p, trace[i][p].n)
          /\ \A p \in Positions(trace[i], "log") :
               \A q \in Positions(trace[i], "call") :
                 trace[i][q].n = trace[i][p].msg[6] + 1 => p < q
          /\ pc[i] = "waiting" =>
               /\ trace[i][Len(trace[i])].ev = "setTimeout"
               /\ trace[i][Len(trace[i]) - 1].ev = "log"
               /\ retries[i] = trace[i][Len(trace[i]) - 1].msg[6] - 1
               /\ retries[i] = Calls(i) - 1
               /\ retries[i] = Len(BackoffsFired(i)))
  /\ [][\A i \in Invocations :
          (pc[i] = "waiting" /\ trace'[i] # trace[i]) =>
            /\ retries'[i] = retries[i] + 1
            /\ Len(trace'[i]) >= Len(trace[i]) + 2
            /\ trace'[i][Len(trace[i]) + 1].ev = "timeout"
            /\ trace'[i][Len(trace[i]) + 2].ev = "call"
            /\ trace'[i][Len(trace[i]) + 2].n = retries'[i] + 1]_vars

\* the second wait: two log calls made, the counter still 1
C23_Witness ==
  \E i \in Invocations :
    /\ pc[i] = "waiting" /\ retries[i] = 1 /\ Logs(i) = 2 /\ Calls(i) = 2
    /\ timers[i] # {}


\* the initial-delay timers armed by invocation i, as positions of its trace
InitialDelaysArmed(i) ==
  {p \in Positions(trace[i], "setTimeout") : trace[i][p].kind = "initialDelay"}

\* C24: the initial-delay suspension is taken at most once per invocation,
\* before the first attempt and never before a retry, and only when
\* initialDelay > 0; with initialDelay = 0 the underlying function is called
\* in the step of the wrapped call itself, before it returns its promise.
C24_InitialDelayOnce ==
  /\ [](\A i \in Invocations :
          /\ Cardinality(InitialDelaysArmed(i)) <= 1
          /\ \A p \in InitialDelaysArmed(i) :
               /\ p = 1
               /\ NumOf(context[i].initialDelay) > 0
               /\ \A q \in Positions(trace[i], "call") : p < q
          /\ Called(i) =>
               (InitialDelaysArmed(i) # {} <=> NumOf(context[i].initialDelay) > 0)
          /\ pc[i] = "initialDelay" =>
               Calls(i) = 0 /\ NumOf(context[i].initialDelay) > 0
          /\ (Called(i) /\ context[i].initialDelay = Num(0)) =>
               /\ trace[i][1].ev = "call"
               /\ \A t \in timers[i] : t.kind = "backoff"
               /\ \A p \in Positions(trace[i], "timeout") : trace[i][p].kind = "backoff")
  /\ [][\A i \in Invocations :
          (pc[i] = "idle" /\ pc'[i] # "idle") =>
            IF context'[i].initialDelay = Num(0)
            THEN Calls(i)' = 1 /\ pc'[i] # "initialDelay"
            ELSE Calls(i)' = 0 /\ pc'[i] = "initialDelay"]_vars

\* an invocation with initialDelay 1500 on its second retry: one initial-delay
\* timer, armed first, and two backoffs after it
C24_Witness ==
  \E i \in Invocations :
    /\ pc[i] = "attempting" /\ Calls(i) = 3
    /\ context[i].initialDelay = Num(InitialDelayMs)
    /\ InitialDelaysArmed(i) = {1}
    /\ Len(BackoffsFired(i)) = 2


\* C25: a pending backoff wait has exactly one successor, the next attempt:
\* nothing cancels an armed timer, every log call is followed (once its timer
\* has fired) by exactly one further attempt of the same invocation, and an
\* invocation ends only at the end of an attempt, by a success, by budget
\* exhaustion or by a rejection of the predicate, never during a wait.
C25_WaitHasOneSuccessor ==
  /\ [](\A i \in Invocations :
          /\ pc[i] = "waiting" =>
               /\ Cardinality(timers[i]) = 1
               /\ \A t \in timers[i] : t.kind = "backoff"
               /\ inflight[i] = {} /\ result[i] = Pending
          /\ \A p \in Positions(trace[i], "log") :
               LET after == {q \in Positions(trace[i], "call") : q > p}
                   next == {q \in after : trace[i][q].n = trace[i][p].msg[6] + 1}
               IN IF pc[i] = "waiting" /\ p = Len(trace[i]) - 1
                  THEN after = {}
                  ELSE next = {p + 3} /\ \A q \in after : q >= p + 3
          /\ Settled(i) =>
               LET e == trace[i][Len(trace[i])]
               IN \/ e.ev = "ok"
                  \/ e.ev = "fail" /\ e.n = Budget(i) + 1
                  \/ e.ev = "shouldRetry" /\ ~e.ret /\ trace[i][Len(trace[i]) - 1].ev = "fail")
  /\ [][\A i \in Invocations :
          /\ (pc[i] = "waiting" /\ Views'[i] # Views[i]) =>
               /\ Calls(i)' = Calls(i) + 1
               /\ timers[i] \cap timers'[i] = {}
               /\ trace'[i][Len(trace[i]) + 1] =
                    [ev |-> "timeout", kind |-> "backoff",
                     delay |-> trace[i][Len(trace[i])].delay]
          /\ (pc[i] = "waiting" /\ Settled(i)') =>
               trace'[i][Len(trace[i]) + 3].ev = "fail"]_vars

\* two waits, each followed by one attempt, the last of which succeeded
C25_Witness ==
  \E i \in Invocations :
    /\ pc[i] = "done-success" /\ Logs(i) = 2 /\ Len(BackoffsFired(i)) = 2
    /\ Calls(i) = 3 /\ timers[i] = {}


\* the override object given in the call of retryWrapper that made wrapper w
OverridesOf(w) == IF w.call[1][1] = "object" THEN w.call[1][2] ELSE NoOptions

\* the construction-level value of an option: what was given to retryify, or
\* the hardcoded default
ConstructionLevel(f) ==
  IF Specified(GivenAtConstruction[f]) THEN GivenAtConstruction[f] ELSE HardcodedDefault(f)

\* C26: wrapping a function with overrides leaves the construction-level
\* defaults unchanged: the options of the factory are not written, a function
\* wrapped afterwards without overrides gets exactly the construction-level
\* config, and the config of the functions wrapped before stays what it was.
C26_OverridesLeaveDefaults ==
  /\ [][options' = options]_vars
  /\ [][\A k \in 1 .. Len(wrappers) :
          k <= Len(wrappers') /\ wrappers'[k] = wrappers[k]]_vars
  /\ [](\A k \in 1 .. Len(wrappers) :
          /\ (\A f \in OptionFields : ~Specified(OverridesOf(wrappers[k])[f])) =>
               \A f \in OptionFields : wrappers[k].config[f] = ConstructionLevel(f)
          /\ \A f \in OptionFields :
               Specified(OverridesOf(wrappers[k])[f]) =>
                 wrappers[k].config[f] = OverridesOf(wrappers[k])[f])
  /\ [](\A f \in OptionFields : options[f] = ConstructionLevel(f))
  /\ [](\A i \in Invocations :
          Called(i) => \E k \in 1 .. Len(wrappers) :
                         \A f \in OptionFields : context[i][f] = wrappers[k].config[f])

\* retryWrapper({retries: 0}, fn) and then retryWrapper(fn) on the factory of
\* the tests: the second function has made its three attempts
C26_Witness ==
  /\ Len(wrappers) = 2
  /\ OverridesOf(wrappers[1]).retries = Num(0) /\ wrappers[1].config.retries = Num(0)
  /\ wrappers[2].call[1][1] = "function"
  /\ wrappers[2].config.retries = Num(2) /\ options.retries = Num(2)
  /\ pc[1] = "done-failure" /\ Budget(1) = 2 /\ Calls(1) = 3


NumericFields == {"retries", "initialDelay", "timeout", "factor"}

\* C27: an option is unspecified only when it is undefined or null: a 0 given
\* as an override or at construction (retries, timeout, initialDelay, factor)
\* is kept and not replaced by the inherited or default value, and an explicit
\* null inherits exactly like a missing field.
C27_ZeroIsSpecified ==
  setup.stage = "wrapped" =>
    /\ \A f \in NumericFields :
         /\ GivenAtWrapping[f] = <<"number", 0>> => wrapped[f] = <<"number", 0>>
         /\ (GivenAtWrapping[f] \in {Undefined, Null}
               /\ GivenAtConstruction[f] = <<"number", 0>>) => wrapped[f] = <<"number", 0>>
    /\ \A f \in OptionFields :
         /\ GivenAtWrapping[f] \in {Undefined, Null} => wrapped[f] = ConstructionLevel(f)
         /\ (GivenAtWrapping[f] \in {Undefined, Null}
               /\ GivenAtConstruction[f] \in {Undefined, Null}) =>
              wrapped[f] = HardcodedDefault(f)
    /\ \A i \in Invocations :
         Called(i) =>
           /\ GivenAtWrapping.retries = <<"number", 0>> => Calls(i) <= 1 /\ Logs(i) = 0
           /\ GivenAtWrapping.initialDelay = <<"number", 0>> => trace[i][1].ev = "call"
           /\ GivenAtWrapping.timeout = <<"number", 0>> =>
                \A k \in 1 .. Len(BackoffsArmed(i)) : BackoffsArmed(i)[k].delay = <<0, 1>>

\* an override of timeout: 0, factor: 0 and retries: null over the options of
\* the tests: retries 2 is inherited through the null and both waits are 0 ms
C27_Witness ==
  /\ setup.stage = "wrapped" /\ setup.arg = Obj(TestOptions)
  /\ GivenAtWrapping.retries = Null /\ GivenAtWrapping.timeout = <<"number", 0>>
  /\ wrapped.retries = <<"number", 2>> /\ wrapped.timeout = <<"number", 0>>
  /\ wrapped.factor = <<"number", 0>>
  /\ pc[1] = "done-failure" /\ Calls(1) = 3
  /\ DelaysWaited(1) = <<<<0, 1>>, <<0, 1>>>>


\* C28: in the recursive executor of the first version a synchronous raise of
\* the wrapped function never leaves the wrapped call as an exception: on
\* every attempt, the last permitted one included, the call hands back a
\* promise, which rejects with the value raised, its message unchanged.
C28_SyncThrowNeverEscapes ==
  \A i \in Invocations :
    /\ result[i].kind \in {"pending", "resolved", "rejected"}
    /\ pc[i] = "done-failure" =>
         /\ result[i].kind = "rejected"
         /\ result[i].reason = trace[i][Last(Positions(trace[i], "fail"))].err
         /\ result[i].reason.message = trace[i][Last(Positions(trace[i], "fail"))].err.message

\* retry(fn, {retries: 0}) with fn raising: the only attempt is the last one
\* and its exception has left the wrapped call
C28_Witness ==
  \E i \in Invocations :
    /\ pc[i] = "done-failure" /\ context[i].retries = Num(0) /\ Calls(i) = 1
    /\ result[i].kind = "thrown" /\ result[i].reason.name = "FooError"


\* two events show the same thing to the collaborators (the receiver and the
\* arguments of a call are those of the invocation and are left out)
SameEvent(e1, e2) ==
  /\ e1.ev = e2.ev
  /\ CASE e1.ev = "call" -> e1.n = e2.n
       [] e1.ev = "fail" -> e1.n = e2.n /\ e1.err = e2.err
       [] e1.ev = "ok" -> e1.n = e2.n /\ e1.value = e2.value
       [] e1.ev = "log" -> e1.log = e2.log /\ e1.msg = e2.msg
       [] e1.ev \in {"setTimeout", "timeout"} -> e1.kind = e2.kind /\ e1.delay = e2.delay
       [] OTHER -> FALSE

SamePrefix(a, b) == Len(a) <= Len(b) /\ \A k \in 1 .. Len(a) : SameEvent(a[k], b[k])

\* the attempts, log calls and waits of invocation i, in order
Observed(i) == SelectSeq(trace[i], LAMBDA e : e.ev # "shouldRetry")

\* the outcomes of the attempts of invocation i, in order
Outcomes(i) == SelectSeq(trace[i], LAMBDA e : e.ev \in {"ok", "fail"})

SameOutcomes(i, j) ==
  Len(Outcomes(i)) = Len(Outcomes(j)) /\ SamePrefix(Outcomes(i), Outcomes(j))

\* C29: the error-list executor and the predicate executor (initialDelay 0)
\* are equivalent: with the same retries, timeout and factor, shouldRetry
\* being `err is an instance of a listed category`, and the same outcomes of
\* the attempts so far, one has done a prefix of what the other has done (the
\* same attempts, log calls, messages and waits), neither has settled before
\* the other got as far, and at the same point they are in the same state
\* with the same result.
C29_ExecutorsEquivalent ==
  SameOutcomes(1, 2) =>
    /\ SamePrefix(Observed(1), Observed(2)) \/ SamePrefix(Observed(2), Observed(1))
    /\ Settled(1) => SamePrefix(Observed(2), Observed(1))
    /\ Settled(2) => SamePrefix(Observed(1), Observed(2))
    /\ Len(Observed(1)) = Len(Observed(2)) =>
         /\ pc[1] = pc[2]
         /\ retries[1] = retries[2]
         /\ timers[1] = timers[2] /\ inflight[1] = inflight[2]
         /\ result[1] = result[2]
         /\ Logs(1) = Logs(2) /\ Calls(1) = Calls(2)
         /\ Messages(1) = Messages(2)

\* errors: [BarError, BazError] and `caught instanceof BarError || caught
\* instanceof BazError`: two BazErrors retried by both, then a rejection
C29_Witness ==
  /\ pc[1] = "done-failure" /\ pc[2] = "done-failure"
  /\ SameOutcomes(1, 2)
  /\ Calls(1) = 3 /\ Calls(2) = 3 /\ Logs(2) = 2
  /\ context[2].errors = <<Class("BarError"), Class("BazError")>>
  /\ context[1].shouldRetry = Fun({"BazError"})
  /\ result[2].reason.name = "BazError"


\* the errors option was left out at construction and at wrapping
ErrorsLeftAtDefault ==
  /\ setup.stage = "wrapped"
  /\ ~Specified(setup.arg[2].errors)
  /\ ~Specified(setup.wrapArgs[1][2].errors)

\* C30: in the error-list version with errors left at its default, every
\* failure of the wrapped function is retried while budget remains, whatever
\* kind of value the function raised or rejected with.
C30_DefaultRetriesAnything ==
  ErrorsLeftAtDefault =>
    \A i \in Invocations :
      \A p \in Positions(trace[i], "fail") :
        trace[i][p].n - 1 < Budget(i) =>
          /\ p < Len(trace[i])
          /\ trace[i][p + 1].ev = "log"
          /\ pc[i] # "done-failure" \/ Calls(i) > trace[i][p].n

\* retryify()(fn) with fn raising the string 'Fail!': one attempt, no retry,
\* three retries left
C30_Witness ==
  /\ ErrorsLeftAtDefault
  /\ \E i \in Invocations :
       /\ pc[i] = "done-failure" /\ Budget(i) = 3 /\ Calls(i) = 1 /\ Logs(i) = 0
       /\ context[i].errors = <<Class("Error")>>
       /\ result[i] = [kind |-> "rejected", reason |-> Thrown("string", 1)]


\* the errors option in force for the wrapped function, as the caller gave it:
\* the override, else the construction value, else the default Error
ErrorsInForce ==
  IF Specified(setup.wrapArgs[1][2].errors) THEN setup.wrapArgs[1][2].errors
  ELSE IF Specified(setup.arg[2].errors) THEN setup.arg[2].errors
  ELSE <<"function", "Error">>

\* the categories it lists: those of the array, or the single one given
CategoriesListed ==
  IF ErrorsInForce[1] = "array"
  THEN {ErrorsInForce[2][k] : k \in 1 .. Len(ErrorsInForce[2])}
  ELSE {ErrorsInForce}

\* C31: in the error-list version a failure with budget left is retried if
\* and only if it is an instance of a listed category, a single category C
\* given as errors counting as the list [C]; a failure that matches no listed
\* category is surfaced after exactly one call of the function that raised it.
C31_RetriedIffListed ==
  \A i \in Invocations :
    Called(i) =>
      /\ context[i].errors = IF ErrorsInForce[1] = "array" THEN ErrorsInForce[2]
                             ELSE <<ErrorsInForce>>
      /\ \A p \in Positions(trace[i], "fail") :
           LET err == trace[i][p].err
               listed == \E c \in CategoriesListed : InstanceOf(err, c)
           IN /\ trace[i][p].n - 1 < Budget(i) =>
                   IF listed
                   THEN /\ p + 2 <= Len(trace[i])
                        /\ trace[i][p + 1].ev = "log"
                        /\ trace[i][p + 2].ev = "setTimeout"
                        /\ pc[i] = "done-failure" => result[i].reason # err
                   ELSE /\ p = Len(trace[i])
                        /\ pc[i] = "done-failure"
                        /\ result[i] = [kind |-> "rejected", reason |-> err]
              /\ ~listed =>
                   /\ Cardinality({q \in Positions(trace[i], "call") :
                                     trace[i][q].n = trace[i][p].n}) = 1
                   /\ \A q \in Positions(trace[i], "call") : q < p

\* errors: BazError, a single category: a BazError is retried, then a FooError
\* is surfaced with budget left
C31_Witness ==
  /\ setup.stage = "wrapped" /\ ErrorsInForce = <<"function", "BazError">>
  /\ \E i \in Invocations :
       /\ pc[i] = "done-failure" /\ Budget(i) = 2 /\ Calls(i) = 2 /\ Logs(i) = 1
       /\ context[i].errors = <<Class("BazError")>>
       /\ result[i].reason.name = "FooError"


\* C32: when shouldRetry or log raises while a failed attempt is handled, the
\* invocation ends at once: no backoff timer is armed, no further attempt is
\* made, and the promise rejects with the value the callback raised, not with
\* the failure of the wrapped function.
C32_CallbackRaises ==
  \A i \in Invocations :
    LET tr == trace[i]
    IN /\ \A p \in Positions(tr, "shouldRetryRaised") :
            /\ p = Len(tr) /\ tr[p - 1].ev = "fail" /\ tr[p - 1].err = tr[p].err
            /\ pc[i] = "done-failure" /\ timers[i] = {} /\ inflight[i] = {}
            /\ result[i] = [kind |-> "rejected", reason |-> CallbackFailure("shouldRetry")]
            /\ result[i].reason # tr[p].err
            /\ Calls(i) = tr[p - 1].n
       /\ \A p \in Positions(tr, "log") :
            RaisesOn(context[i].log, tr[p].msg[6]) =>
              /\ p = Len(tr) /\ tr[p - 2].ev = "fail"
              /\ pc[i] = "done-failure" /\ timers[i] = {} /\ inflight[i] = {}
              /\ result[i] = [kind |-> "rejected", reason |-> CallbackFailure("log")]
              /\ Calls(i) = tr[p - 2].n
              /\ Len(BackoffsArmed(i)) = Logs(i) - 1
       /\ (pc[i] = "done-failure" /\ tr[Len(tr)].ev \notin {"shouldRetryRaised", "log"}) =>
            result[i].reason = tr[Last(Positions(tr, "fail"))].err

\* log raises on the second retry, with budget left: two attempts, one wait,
\* and the rejection carries what log raised
C32_Witness ==
  \E i \in Invocations :
    /\ pc[i] = "done-failure" /\ Budget(i) = 2 /\ Calls(i) = 2 /\ Logs(i) = 2
    /\ Len(BackoffsArmed(i)) = 1
    /\ result[i].reason = CallbackFailure("log")


\* a number of retries: a non-negative integer
NonNegativeInteger(v) == Len(v) = 2 /\ v[2] \in Nat

\* C33: the budget check is an equality test; with a retries that is not a
\* non-negative integer (-1, 1.5) the counter never equals it: every failure
\* goes on to the predicate, an always-failing function whose failures are
\* accepted is retried again and again, and the invocation never settles.
C33_BudgetNeverReached ==
  \A i \in Invocations :
    (Called(i) /\ ~NonNegativeInteger(context[i].retries)) =>
      LET tr == trace[i]
      IN /\ \A k \in 0 .. retries[CounterOf(i)] : Num(k) # context[i].retries
         /\ \A p \in Positions(tr, "fail") :
              p < Len(tr) /\ tr[p + 1].ev = "shouldRetry"
         /\ (NoSuccess(i) /\ AllRetryable(i)) =>
              /\ ~Settled(i)
              /\ Len(BackoffsArmed(i)) = CountEv(tr, "fail")
              /\ Calls(i) > 0 => Calls(i) = Len(BackoffsFired(i)) + 1

\* retries -1: the function has failed MaxCounter + 1 times, more often than
\* any budget of the model allows, and another backoff is armed
C33_Witness ==
  \E i \in Invocations :
    /\ pc[i] = "waiting" /\ context[i].retries = Num(0 - 1)
    /\ NoSuccess(i) /\ AllRetryable(i)
    /\ Calls(i) = MaxCounter + 1 /\ Calls(i) > MaxRetries + 1
    /\ Len(BackoffsArmed(i)) = MaxCounter + 1


\* the construction-level options wrapper k was made from, as the caller can
\* see them: its own object as it was at the wrap call, or, for a factory
\* built from nothing, the hardcoded defaults
DefaultsSeenBy(k) ==
  IF setup.factories[setup.madeBy[k].factory].given
  THEN setup.madeBy[k].object
  ELSE [f \in OptionFields |-> HardcodedDefault(f)]

\* C34: retryify(options) writes the defaults into the caller's own options
\* object and every wrap call reads that same object: a change the caller
\* makes to it between construction and a wrap call changes the config of the
\* functions wrapped afterwards, and two factories built from one shared
\* object share their defaults.
C34_SharedOptionsObject ==
  /\ [][\A f \in OptionFields :
          (Len(setup'.factories) > Len(setup.factories)
             /\ setup'.factories[Len(setup'.factories)].given) =>
            /\ options'[f] = getOpt(options[f], HardcodedDefault(f))
            /\ setup'.factories[Len(setup'.factories)].object = options']_vars
  /\ [](\A k \in 1 .. Len(wrappers) : \A f \in OptionFields :
          wrappers[k].config[f] = getOpt(OverridesOf(wrappers[k])[f], DefaultsSeenBy(k)[f]))
  /\ [](\A k \in 1 .. Len(wrappers), m \in 1 .. Len(wrappers) : \A f \in OptionFields :
          (/\ setup.factories[setup.madeBy[k].factory].given
           /\ setup.factories[setup.madeBy[m].factory].given
           /\ setup.madeBy[k].object = setup.madeBy[m].object
           /\ ~Specified(OverridesOf(wrappers[k])[f])
           /\ ~Specified(OverridesOf(wrappers[m])[f])) =>
            wrappers[k].config[f] = wrappers[m].config[f])

\* two factories built from {retries: 2}; the caller then set retries to 0 and
\* wrapped a function with each: both got retries 0 and the default timeout
\* that retryify wrote into the object, and the second gave up after one call
C34_Witness ==
  /\ Len(setup.factories) = 2 /\ Len(wrappers) = 2
  /\ \A k \in 1 .. 2 :
       /\ setup.factories[k].given /\ setup.factories[k].object.retries = Num(2)
       /\ setup.madeBy[k].factory = k /\ setup.madeBy[k].object.retries = Num(0)
       /\ wrappers[k].call[1][1] = "function"
       /\ wrappers[k].config.retries = Num(0)
       /\ wrappers[k].config.timeout = Num(DefaultTimeout)
  /\ setup.arg[2].timeout = Undefined /\ options.timeout = Num(DefaultTimeout)
  /\ pc[1] = "done-failure" /\ Calls(1) = 1


C36_RecursiveEqualsLoop ==
  SameOutcomes(1, 2) =>
    /\ SamePrefix(Observed(1), Observed(2)) \/ SamePrefix(Observed(2), Observed(1))
    /\ Settled(1) => SamePrefix(Observed(2), Observed(1))
    /\ Settled(2) => SamePrefix(Observed(1), Observed(2))
    /\ Len(Observed(1)) = Len(Observed(2)) =>
         /\ pc[1] = pc[2]
         /\ (Called(1) /\ Called(2)) =>
              context[1].attempts = retries[2] + (IF pc[1] = "waiting" THEN 1 ELSE 0)
         /\ timers[1] = timers[2] /\ inflight[1] = inflight[2]
         /\ result[1] = result[2]
         /\ Logs(1) = Logs(2) /\ Calls(1) = Calls(2)
         /\ Messages(1) = Messages(2)
         /\ DelaysWaited(1) = DelaysWaited(2)

\* an anonymous function, errors: [BarError, BazError], retries 2: two
\* BazErrors retried by both executors with the same two messages, then both
\* reject with the third
C36_Witness ==
  /\ pc[1] = "done-failure" /\ pc[2] = "done-failure"
  /\ SameOutcomes(1, 2)
  /\ context[1].fnName = "" /\ context[2].fnName = "<Anonymous>"
  /\ context[1].errors = <<Class("BarError"), Class("BazError")>>
  /\ context[1].attempts = 2 /\ retries[2] = 2
  /\ Calls(1) = 3 /\ Calls(2) = 3 /\ Logs(1) = 2 /\ Logs(2) = 2
  /\ result[1].reason.name = "BazError" /\ result[1] = result[2]

====
